---- MODULE Spec2Model ----
(***************************************************************************)
(* A model of ChromeWebStoreClient (src/src/services/chrome-webstore-      *)
(* client.ts): the cached OAuth2 access token, the five domain operations  *)
(* and the upload-completion poller.  One client instance runs one         *)
(* operation at a time; every await of the code is a step of the model,    *)
(* and the wall clock (Date.now(), in ms) advances while a request is in   *)
(* flight, while the poller sleeps and between operations.                 *)
(*                                                                         *)
(* Spec is the client used alone by an arbitrary caller, SpecFair adds the *)
(* fairness of the event loop, and SpecCli is one run of the cws           *)
(* executable: the handler of the upload, publish, cancel, deploy or       *)
(* status command (src/src/commands) driving a new client; SpecCliFair     *)
(* adds the fairness of its timer.  SpecRace is a caller that starts two   *)
(* operations on one client at once.  SpecHttp, SpecMultipart and          *)
(* SpecConfig apply one function on its own: httpRequest to a response,    *)
(* the multipart body of uploadPackage to a parser, and loadConfig and     *)
(* saveConfig (src/src/utils/config.ts) to a file system and an            *)
(* environment.                                                            *)
(***************************************************************************)
EXTENDS Integers, Sequences, FiniteSets, TLC

\* ------------------------------------------------------------------ bounds
\* The clock stops advancing at MaxTicks * Tick ms.
MaxTicks == 10
\* A request takes 0..MaxLatency ticks.
MaxLatency == 1
\* setTimeout fires 0..MaxJitter ticks late.
MaxJitter == 1
\* The token endpoint answers expires_in 0..MaxExpiresIn seconds.
MaxExpiresIn == 2
\* The caller starts the next operation 0..MaxIdle ticks after the previous one ended.
MaxIdle == 1

\* --------------------------------------------------------------- constants
POLL_INTERVAL_MS == 2000
\* The resolution of the modelled clock: half a polling interval.
Tick == POLL_INTERVAL_MS \div 2
MaxTime == MaxTicks * Tick

\* JavaScript's undefined, for a string and for a number, and NaN.
Undefined == "undefined"
UndefinedNum == -1
NaN == -2

Tokens == {"T1", "T2"}
Latencies == {k * Tick : k \in 0..MaxLatency}
Jitters == {k * Tick : k \in 0..MaxJitter}
\* The maxWaitTime arguments tried (ms).
MaxWaitTimes == {-1000, 0, 5000, 10000}

\* The file arguments tried: a path, whether a file is there, and its size in bytes.
Paths == {"pkg.zip", "pkg.CRX", "pkg.txt"}
Files ==
    {[path |-> "pkg.CRX", exists |-> TRUE, size |-> 1024],
     [path |-> "pkg.zip", exists |-> TRUE, size |-> 0],
     [path |-> "pkg.txt", exists |-> TRUE, size |-> 1024],
     [path |-> "pkg.zip", exists |-> FALSE, size |-> 0]}
NoFile == [path |-> "", exists |-> FALSE, size |-> 0]

\* enum UploadState
UploadState == {"UPLOAD_STATE_UNSPECIFIED", "SUCCEEDED", "IN_PROGRESS", "FAILED", "NOT_FOUND"}

\* The five request operations built on the token, and the poller.
RequestOps == {"uploadPackage", "publishItem", "fetchItemStatus", "cancelSubmission",
               "setPublishedDeployPercentage"}
Poller == "waitForUploadCompletion"

VARIABLES
    now,            \* Date.now(), ms
    config,         \* this.config: the credentials given to the constructor
    accessToken,    \* this.accessToken
    tokenExpiry,    \* this.tokenExpiry
    pc,             \* where the running operation is suspended
    op,             \* the running (or last) public operation
    startTime,      \* waitForUploadCompletion: startTime
    maxWaitTime,    \* waitForUploadCompletion: maxWaitTime
    outcome,        \* how the last public operation ended
    bearer,         \* the token in the Authorization header of the domain request
    tokenReqs,      \* token-endpoint requests sent by the request operation (see below)
    domainReqs,     \* domain requests sent by the request operation
    polls,          \* fetchItemStatus calls made by the running poller
    tokenResp,      \* what the token endpoint answered to the request operation
    lastState,      \* lastAsyncUploadState of the last fetchStatus response of the poller
    pre,            \* the token cache and credentials when the public request operation
                    \* started
    reqSinceCached, \* a token request was sent after the cached token was stored
    delay,          \* ms the running poller spent on responses and late timers
    onlyInProgress, \* every response the running poller slept on said IN_PROGRESS
    file,           \* the file that filePath names, in uploadPackage and the upload command
    command,        \* the CLI command this process runs ("none": the client is used alone)
    cpc,            \* where the command's action handler is suspended
    opts,           \* the options the handler has read so far
    uploadState,    \* uploadResponse.uploadState, as the upload command read it
    calls,          \* the client operations the handler called, with their request bodies
    exit,           \* how the handler ended: its exit code and error message
    timerAt,        \* when the setInterval timer of status --watch is due next (-1: no timer)
    second,         \* the operation started on the client while the one pc follows is
                    \* still running (NoSecond: none)
    input,          \* the arguments of the function applied on its own
    output          \* what that function returned or threw

\* "The request operation" is the running uploadPackage or makeRequest call, a poll
\* of the poller included. tokenReqs, domainReqs and tokenResp stay as they are when
\* the public operation ends with it, and start afresh when a poll returns to the
\* poller. bearer, polls, lastState, delay and onlyInProgress also are history the
\* code does not hold.
\* The state of the command layer (src/src/commands).
cliVars == <<command, cpc, opts, uploadState, calls, exit, timerAt>>

\* The state used only where a second operation overlaps the first, and where one
\* function of the code is applied on its own.
extVars == <<second, input, output>>

vars == <<now, config, accessToken, tokenExpiry, pc, op, startTime, maxWaitTime, outcome,
          bearer, tokenReqs, domainReqs, polls, tokenResp, lastState, pre, reqSinceCached,
          delay, onlyInProgress, file, cliVars, extVars>>

\* ------------------------------------------------------------ the responses
\* What the token endpoint can answer: a status and a body that is empty, not
\* JSON, or a JSON object in which either field may be missing.
TokenResponses ==
    {[status |-> 401, text |-> "garbage", access_token |-> Undefined,
      expires_in |-> UndefinedNum],
     [status |-> 200, text |-> "garbage", access_token |-> Undefined,
      expires_in |-> UndefinedNum],
     [status |-> 200, text |-> "empty", access_token |-> Undefined,
      expires_in |-> UndefinedNum]}
    \cup
    [status : {200}, text : {"json"}, access_token : Tokens, expires_in : 0..MaxExpiresIn]
    \cup
    {[status |-> 200, text |-> "json", access_token |-> "T1", expires_in |-> UndefinedNum],
     [status |-> 200, text |-> "json", access_token |-> Undefined, expires_in |-> 1],
     [status |-> 200, text |-> "json", access_token |-> Undefined, expires_in |-> UndefinedNum]}

\* A status response that carries no state: the field is absent, or empty.
NoState == {Undefined, ""}

\* What a domain endpoint can answer; lastAsyncUploadState matters to fetchStatus.
StatusResponses ==
    [status : {200, 500}, text : {"empty", "garbage"}, lastAsyncUploadState : {Undefined}]
    \cup
    [status : {200}, text : {"json"},
     lastAsyncUploadState : UploadState \cup NoState]

PlainResponses ==
    [status : {200, 500}, text : {"empty", "json"}, lastAsyncUploadState : {Undefined}]

DomainResponses(o) == IF o \in {"fetchItemStatus", Poller} THEN StatusResponses ELSE PlainResponses

\* ------------------------------------------------------------ pure functions
\* response.ok
ResponseOk(r) == r.status >= 200 /\ r.status <= 299

\* httpRequest: "HTTP" (a non-2xx status), "SyntaxError" (JSON.parse throws) or "" (a value).
HttpError(r) ==
    IF ~ResponseOk(r) THEN "HTTP"
    ELSE IF r.text = "garbage" THEN "SyntaxError"
    ELSE ""

\* Mutant: the test of existsSync the wrong way round.
FileNotFound_Inverted(f) == f.exists

\* uploadPackage: if (!existsSync(filePath))
FileNotFound(f) == ~f.exists

\* Mutant: the comparison with the expiry the wrong way round.
TokenIsValid_Reversed(tok, exp, t) ==
    /\ tok # Undefined /\ tok # ""
    /\ exp # UndefinedNum /\ exp # NaN /\ exp # 0
    /\ t > exp

\* Mutant: a token is still handed out at the instant it expires.
TokenIsValid_Lax(tok, exp, t) ==
    /\ tok # Undefined /\ tok # ""
    /\ exp # UndefinedNum /\ exp # NaN /\ exp # 0
    /\ t <= exp

\* Mutant: the token is refreshed one tick ahead of its expiry.
TokenIsValid_Early(tok, exp, t) ==
    /\ tok # Undefined
    /\ exp # UndefinedNum
    /\ exp # NaN
    /\ t + Tick < exp

\* The cache test of getAccessToken.
TokenIsValid(tok, exp, t) ==
    /\ tok # Undefined /\ tok # ""
    /\ exp # UndefinedNum /\ exp # NaN /\ exp # 0
    /\ t < exp

\* Mutant: expires_in taken for milliseconds.
ExpiryOf_Seconds(t, expires_in) ==
    IF expires_in = UndefinedNum THEN NaN ELSE t + expires_in

\* Date.now() + response.expires_in * 1000
ExpiryOf(t, expires_in) ==
    IF expires_in = UndefinedNum THEN NaN ELSE t + expires_in * 1000

\* Mutant: a failed refresh extends the life of the cached token by a second.
CacheAfter_ExtendOnError(r, t, tok, exp) ==
    IF HttpError(r) # ""
    THEN [accessToken |-> tok, tokenExpiry |-> t + 1000]
    ELSE [accessToken |-> r.access_token, tokenExpiry |-> ExpiryOf(t, r.expires_in)]

\* Mutant: a failed refresh clears the cache.
CacheAfter_ClearOnError(r, t, tok, exp) ==
    IF ~(r.status >= 200 /\ r.status <= 299) \/ r.text = "garbage"
    THEN [accessToken |-> Undefined, tokenExpiry |-> UndefinedNum]
    ELSE [accessToken |-> r.access_token,
          tokenExpiry |-> IF r.expires_in = UndefinedNum THEN NaN
                          ELSE t + r.expires_in * 1000]

\* getAccessToken after its await: the cache when the token endpoint answered r at
\* time t. httpRequest throws before the two assignments are reached.
CacheAfter(r, t, tok, exp) ==
    IF HttpError(r) # ""
    THEN [accessToken |-> tok, tokenExpiry |-> exp]
    ELSE [accessToken |-> r.access_token, tokenExpiry |-> ExpiryOf(t, r.expires_in)]

\* Mutant: the operands of the subtraction swapped.
LoopContinues_Reversed(t, start, maxWait) == start - t < maxWait

\* Mutant: the deadline itself still polls.
LoopContinues_Inclusive(t, start, maxWait) == t - start <= maxWait

\* Mutant: while (true), the deadline is never looked at.
LoopContinues_Always(t, start, maxWait) == TRUE

\* The loop condition of waitForUploadCompletion.
LoopContinues(t, start, maxWait) == t - start < maxWait

\* Mutant: the FAILED case falls through to IN_PROGRESS.
PollVerdict_FailedFallsThrough(state) ==
    IF state = Undefined \/ state = "" THEN "sleep"
    ELSE IF state = "SUCCEEDED" THEN "return"
    ELSE IF state = "FAILED" THEN "sleep"
    ELSE IF state = "IN_PROGRESS" THEN "sleep"
    ELSE "return"

\* Mutant: no default case, a state the switch does not name keeps the poller waiting.
PollVerdict_NoDefault(state) ==
    IF state = Undefined \/ state = "" THEN "sleep"
    ELSE IF state = "SUCCEEDED" THEN "return"
    ELSE IF state = "FAILED" THEN "return"
    ELSE "sleep"

\* Mutant: no test of the state's truthiness, an absent state goes to the default case.
PollVerdict_NoTruthTest(state) ==
    IF state = "SUCCEEDED" THEN "return"
    ELSE IF state = "FAILED" THEN "return"
    ELSE IF state = "IN_PROGRESS" THEN "sleep"
    ELSE "return"

\* The switch of waitForUploadCompletion: "sleep", or "return" the state.
PollVerdict(state) ==
    IF state = Undefined \/ state = "" THEN "sleep"
    ELSE IF state = "SUCCEEDED" THEN "return"
    ELSE IF state = "FAILED" THEN "return"
    ELSE IF state = "IN_PROGRESS" THEN "sleep"
    ELSE "return"

\* Mutant: setTimeout without its delay.
SleepFor_NoDelay(j) == j

\* Mutant: the sleep is twice the polling interval.
SleepFor_Doubled(j) == 2 * POLL_INTERVAL_MS + j

\* Mutant: the sleep is half the polling interval.
SleepFor_Halved(j) == POLL_INTERVAL_MS \div 2 + j

\* setTimeout(resolve, POLL_INTERVAL_MS): the sleep lasts the interval plus the jitter.
SleepFor(j) == POLL_INTERVAL_MS + j

NoResponse == [status |-> 0, text |-> "none", access_token |-> Undefined,
               expires_in |-> UndefinedNum]
NoOutcome == [kind |-> "none", value |-> ""]
\* No option read yet; the handler still running.
NoOpts == [dry |-> FALSE, autoPublish |-> FALSE, watch |-> FALSE, maxWaitTime |-> <<>>,
           deployPercentage |-> <<>>, interval |-> <<>>]
NoExit == [code |-> -1, error |-> ""]
NoSecond == [pc |-> "none", op |-> "none", bearer |-> Undefined, outcome |-> NoOutcome,
             tokenResp |-> NoResponse, overlap |-> FALSE]
NoInput == [fn |-> "none"]
NoOutput == [kind |-> "none"]
NoPre == [accessToken |-> Undefined, tokenExpiry |-> UndefinedNum, config |-> "", live |-> FALSE]
Snapshot == [accessToken |-> accessToken, tokenExpiry |-> tokenExpiry, config |-> config,
             live |-> TRUE]

\* getAccessToken up to its await, at time t, for an operation o that is called
\* while another operation of the client awaits a response.
SecondCalled(o, t) ==
    IF TokenIsValid(accessToken, tokenExpiry, t)
    THEN [NoSecond EXCEPT !.op = o, !.pc = "domainRequest", !.bearer = accessToken]
    ELSE [NoSecond EXCEPT !.op = o, !.pc = "tokenRequest", !.overlap = (pc = "tokenRequest")]

\* ------------------------------------------------------------------- Init
\* No operation is running or has run, in a process that has not read its command.
Unused ==
    /\ config = "credentials"
    /\ pc = "idle"
    /\ op = "none"
    /\ startTime = 0
    /\ maxWaitTime = 0
    /\ outcome = NoOutcome
    /\ bearer = Undefined
    /\ tokenReqs = 0
    /\ domainReqs = 0
    /\ polls = 0
    /\ tokenResp = NoResponse
    /\ lastState = Undefined
    /\ pre = NoPre
    /\ reqSinceCached = FALSE
    /\ delay = 0
    /\ onlyInProgress = TRUE
    /\ file = NoFile
    /\ command = "none"
    /\ cpc = "none"
    /\ opts = NoOpts
    /\ uploadState = ""
    /\ calls = <<>>
    /\ exit = NoExit
    /\ timerAt = -1
    /\ second = NoSecond

\* new ChromeWebStoreClient(config): no token is cached.
Constructed ==
    /\ now = 0
    /\ accessToken = Undefined
    /\ tokenExpiry = UndefinedNum
    /\ Unused

\* The client and the commands start with no function applied on its own.
Init ==
    /\ Constructed
    /\ input = NoInput
    /\ output = NoOutput

\* ---------------------------------------------------------------- actions
\* A public operation is called, k ticks after the previous one ended: its
\* bookkeeping starts afresh.
Begin(o) ==
    /\ pc = "idle"
    /\ \E k \in 0..MaxIdle :
        /\ now + k * Tick <= MaxTime
        /\ now' = now + k * Tick
    /\ op' = o
    /\ bearer' = Undefined
    /\ tokenReqs' = 0
    /\ domainReqs' = 0
    /\ polls' = 0
    /\ tokenResp' = NoResponse
    /\ lastState' = Undefined
    /\ pre' = IF o = Poller THEN NoPre ELSE Snapshot
    /\ delay' = 0
    /\ onlyInProgress' = TRUE
    /\ UNCHANGED <<extVars, config, accessToken, tokenExpiry, reqSinceCached>>

\* The operation ends: it returns value v or throws error v to its caller.
End(kind, v) ==
    /\ pc' = "idle"
    /\ outcome' = [kind |-> kind, value |-> v]

\* uploadPackage(itemId, filePath) where filePath names f: existsSync(filePath), then
\* the body is built and the token asked for.
CallUploadPackage(f) ==
    /\ Begin("uploadPackage")
    /\ startTime' = 0 /\ maxWaitTime' = 0
    /\ file' = f
    /\ IF FileNotFound(f)
       THEN End("throw", "File not found")
       ELSE pc' = "getAccessToken" /\ outcome' = NoOutcome

\* makeRequest, as publishItem, fetchItemStatus, cancelSubmission and
\* setPublishedDeployPercentage call it.
CallMakeRequest(o) ==
    /\ Begin(o)
    /\ pc' = "getAccessToken"
    /\ outcome' = NoOutcome
    /\ startTime' = 0 /\ maxWaitTime' = 0

\* waitForUploadCompletion(itemId, m): const startTime = Date.now().
CallWaitForUploadCompletion(m) ==
    /\ Begin(Poller)
    /\ maxWaitTime' = m
    /\ startTime' = now'
    /\ pc' = "loop"
    /\ outcome' = NoOutcome

\* The client used alone: its caller calls uploadPackage with some file.
UploadPackage ==
    /\ command = "none"
    /\ \E f \in Files : CallUploadPackage(f)
    /\ UNCHANGED cliVars

\* The caller calls publishItem, fetchItemStatus, cancelSubmission or
\* setPublishedDeployPercentage.
MakeRequest ==
    /\ command = "none"
    /\ \E o \in RequestOps \ {"uploadPackage"} : CallMakeRequest(o)
    /\ file' = NoFile
    /\ UNCHANGED cliVars

\* The caller calls waitForUploadCompletion with some maxWaitTime.
WaitForUploadCompletion ==
    /\ command = "none"
    /\ \E m \in MaxWaitTimes : CallWaitForUploadCompletion(m)
    /\ file' = NoFile
    /\ UNCHANGED cliVars

\* while (Date.now() - startTime < maxWaitTime): the next fetchItemStatus, or the timeout.
LoopCheck ==
    /\ pc = "loop"
    /\ IF LoopContinues(now, startTime, maxWaitTime)
       THEN /\ pc' = "getAccessToken"
            /\ polls' = polls + 1
            /\ UNCHANGED outcome
       ELSE /\ End("throw", "Upload timeout")
            /\ UNCHANGED polls
    /\ UNCHANGED <<tokenReqs, domainReqs, tokenResp, pre>>
    /\ UNCHANGED <<extVars, now, config, accessToken, tokenExpiry, op, startTime, maxWaitTime, bearer,
                   lastState, reqSinceCached, delay, onlyInProgress, file, cliVars>>

\* getAccessToken up to its await: the cached token goes into the domain request, which
\* is sent at once, or the refresh request is sent.
GetAccessToken ==
    /\ pc = "getAccessToken"
    /\ IF TokenIsValid(accessToken, tokenExpiry, now)
       THEN /\ bearer' = accessToken
            /\ pc' = "domainRequest"
            /\ domainReqs' = domainReqs + 1
            /\ UNCHANGED <<tokenReqs, reqSinceCached>>
       ELSE /\ pc' = "tokenRequest"
            /\ tokenReqs' = tokenReqs + 1
            /\ reqSinceCached' = TRUE
            /\ UNCHANGED <<bearer, domainReqs>>
    /\ UNCHANGED <<extVars, now, config, accessToken, tokenExpiry, op, startTime, maxWaitTime, outcome,
                   polls, tokenResp, lastState, pre, delay, onlyInProgress, file, cliVars>>

\* Mutant: the Authorization header is built from the token cached before the refresh.
TokenResponse_StaleBearer ==
    /\ pc = "tokenRequest"
    /\ \E d \in Latencies, r \in TokenResponses :
        /\ now + d <= MaxTime
        /\ now' = now + d
        /\ delay' = IF op = Poller THEN delay + d ELSE delay
        /\ tokenResp' = r
        /\ accessToken' = CacheAfter(r, now', accessToken, tokenExpiry).accessToken
        /\ tokenExpiry' = CacheAfter(r, now', accessToken, tokenExpiry).tokenExpiry
        /\ IF HttpError(r) # ""
           THEN /\ End("throw", HttpError(r))
                /\ UNCHANGED <<bearer, domainReqs, reqSinceCached>>
           ELSE /\ bearer' = accessToken
                /\ reqSinceCached' = FALSE
                /\ pc' = "domainRequest"
                /\ domainReqs' = domainReqs + 1
                /\ UNCHANGED outcome
    /\ UNCHANGED <<extVars, config, op, startTime, maxWaitTime, tokenReqs, polls, lastState, pre,
                   onlyInProgress, file, cliVars>>

\* The token endpoint answers after d ms: httpRequest throws, or the response's fields
\* are stored and the domain request is sent with the new token.
TokenResponse ==
    /\ pc = "tokenRequest"
    /\ \E d \in Latencies, r \in TokenResponses :
        /\ now + d <= MaxTime
        /\ now' = now + d
        /\ delay' = IF op = Poller THEN delay + d ELSE delay
        /\ tokenResp' = r
        /\ accessToken' = CacheAfter(r, now', accessToken, tokenExpiry).accessToken
        /\ tokenExpiry' = CacheAfter(r, now', accessToken, tokenExpiry).tokenExpiry
        /\ IF HttpError(r) # ""
           THEN /\ End("throw", HttpError(r))
                /\ UNCHANGED <<bearer, domainReqs, reqSinceCached>>
           ELSE /\ bearer' = accessToken'
                /\ reqSinceCached' = FALSE
                /\ pc' = "domainRequest"
                /\ domainReqs' = domainReqs + 1
                /\ UNCHANGED outcome
    /\ UNCHANGED <<extVars, config, op, startTime, maxWaitTime, tokenReqs, polls, lastState, pre,
                   onlyInProgress, file, cliVars>>

\* Mutant: an automatic retry, a failed domain request is sent once more.
DomainResponse_Retry ==
    /\ pc = "domainRequest"
    /\ \E d \in Latencies, r \in DomainResponses(op) :
        /\ now + d <= MaxTime
        /\ now' = now + d
        /\ delay' = IF op = Poller THEN delay + d ELSE delay
        /\ IF HttpError(r) # "" /\ domainReqs < 2
           THEN /\ domainReqs' = domainReqs + 1
                /\ UNCHANGED <<pc, outcome, lastState, onlyInProgress, tokenReqs, tokenResp>>
           ELSE IF HttpError(r) # ""
           THEN /\ End("throw", HttpError(r))
                /\ UNCHANGED <<lastState, onlyInProgress, tokenReqs, domainReqs, tokenResp>>
           ELSE IF op = Poller
           THEN /\ lastState' = r.lastAsyncUploadState
                /\ tokenReqs' = 0
                /\ domainReqs' = 0
                /\ tokenResp' = NoResponse
                /\ IF PollVerdict(r.lastAsyncUploadState) = "return"
                   THEN /\ End("return", r.lastAsyncUploadState)
                        /\ UNCHANGED onlyInProgress
                   ELSE /\ pc' = "sleep"
                        /\ onlyInProgress' =
                              (onlyInProgress /\ r.lastAsyncUploadState = "IN_PROGRESS")
                        /\ UNCHANGED outcome
           ELSE /\ End("return", "response")
                /\ UNCHANGED <<lastState, onlyInProgress, tokenReqs, domainReqs, tokenResp>>
    /\ UNCHANGED <<extVars, config, accessToken, tokenExpiry, op, startTime, maxWaitTime, bearer,
                   polls, pre, reqSinceCached, file, cliVars>>

\* Mutant: the deadline is tested when the response arrives as well.
DomainResponse_DeadlineOnResponse ==
    /\ pc = "domainRequest"
    /\ \E d \in Latencies, r \in DomainResponses(op) :
        /\ now + d <= MaxTime
        /\ now' = now + d
        /\ delay' = IF op = Poller THEN delay + d ELSE delay
        /\ IF HttpError(r) # ""
           THEN /\ End("throw", HttpError(r))
                /\ UNCHANGED <<lastState, onlyInProgress, tokenReqs, domainReqs, tokenResp>>
           ELSE IF op = Poller
           THEN /\ lastState' = r.lastAsyncUploadState
                /\ tokenReqs' = 0
                /\ domainReqs' = 0
                /\ tokenResp' = NoResponse
                /\ IF ~LoopContinues(now', startTime, maxWaitTime)
                   THEN /\ End("throw", "Upload timeout")
                        /\ UNCHANGED onlyInProgress
                   ELSE IF PollVerdict(r.lastAsyncUploadState) = "return"
                   THEN /\ End("return", r.lastAsyncUploadState)
                        /\ UNCHANGED onlyInProgress
                   ELSE /\ pc' = "sleep"
                        /\ onlyInProgress' =
                              (onlyInProgress /\ r.lastAsyncUploadState = "IN_PROGRESS")
                        /\ UNCHANGED outcome
           ELSE /\ End("return", "response")
                /\ UNCHANGED <<lastState, onlyInProgress, tokenReqs, domainReqs, tokenResp>>
    /\ UNCHANGED <<extVars, config, accessToken, tokenExpiry, op, startTime, maxWaitTime, bearer,
                   polls, pre, reqSinceCached, file, cliVars>>

\* The domain endpoint answers after d ms: httpRequest throws or returns; the poller
\* inspects lastAsyncUploadState and returns it or goes to sleep.
DomainResponse ==
    /\ pc = "domainRequest"
    /\ \E d \in Latencies, r \in DomainResponses(op) :
        /\ now + d <= MaxTime
        /\ now' = now + d
        /\ delay' = IF op = Poller THEN delay + d ELSE delay
        /\ IF HttpError(r) # ""
           THEN /\ End("throw", HttpError(r))
                /\ UNCHANGED <<lastState, onlyInProgress, tokenReqs, domainReqs, tokenResp>>
           ELSE IF op = Poller
           THEN /\ lastState' = r.lastAsyncUploadState
                /\ tokenReqs' = 0
                /\ domainReqs' = 0
                /\ tokenResp' = NoResponse
                /\ IF PollVerdict(r.lastAsyncUploadState) = "return"
                   THEN /\ End("return", r.lastAsyncUploadState)
                        /\ UNCHANGED onlyInProgress
                   ELSE /\ pc' = "sleep"
                        /\ onlyInProgress' =
                              (onlyInProgress /\ r.lastAsyncUploadState = "IN_PROGRESS")
                        /\ UNCHANGED outcome
           ELSE /\ End("return", "response")
                /\ UNCHANGED <<lastState, onlyInProgress, tokenReqs, domainReqs, tokenResp>>
    /\ UNCHANGED <<extVars, config, accessToken, tokenExpiry, op, startTime, maxWaitTime, bearer,
                   polls, pre, reqSinceCached, file, cliVars>>

\* await new Promise(resolve => setTimeout(resolve, POLL_INTERVAL_MS))
Sleep ==
    /\ pc = "sleep"
    /\ \E j \in Jitters :
        /\ now + SleepFor(j) <= MaxTime
        /\ now' = now + SleepFor(j)
        /\ delay' = delay + j
    /\ pc' = "loop"
    /\ UNCHANGED <<extVars, config, accessToken, tokenExpiry, op, startTime, maxWaitTime, outcome,
                   bearer, tokenReqs, domainReqs, polls, tokenResp, lastState, pre,
                   reqSinceCached, onlyInProgress, file, cliVars>>

Next ==
    \/ UploadPackage
    \/ MakeRequest
    \/ WaitForUploadCompletion
    \/ LoopCheck
    \/ GetAccessToken
    \/ TokenResponse
    \/ DomainResponse
    \/ Sleep

Spec == Init /\ [][Next]_vars

\* ------------------------------------------------------------ claim helpers
\* How the token endpoint's last answer reads.
RespKind(r) ==
    IF r.text = "none" THEN "none"
    ELSE IF r.status < 200 \/ r.status > 299 THEN "http_error"
    ELSE IF r.text = "garbage" THEN "not_json"
    ELSE IF r.access_token = Undefined \/ r.expires_in = UndefinedNum THEN "malformed"
    ELSE "well_formed"

\* A token is cached and the clock is before its expiry.
CachedAndFresh == accessToken \in Tokens /\ tokenExpiry >= 0 /\ now < tokenExpiry
\* A token is cached and its expiry has passed.
CachedAndExpired == accessToken \in Tokens /\ tokenExpiry >= 0 /\ now >= tokenExpiry

Elapsed == now - startTime
TimedOut == op = Poller /\ outcome = [kind |-> "throw", value |-> "Upload timeout"]
Returned == op = Poller /\ outcome.kind = "return"

\* ------------------------------------------------------------------ claims
\* C1: while a token is cached and the clock is before its expiry, getAccessToken
\* hands out that token, leaves the cache as it is and sends nothing to the token
\* endpoint; so no token request follows the one that stored the token for as long
\* as the token lives, however many calls are made.
C1_CacheHit ==
    /\ [](CachedAndFresh => ~reqSinceCached)
    /\ [][(pc = "getAccessToken" /\ CachedAndFresh) =>
            /\ pc' = "domainRequest"
            /\ bearer' = accessToken
            /\ tokenReqs' = tokenReqs
            /\ accessToken' = accessToken
            /\ tokenExpiry' = tokenExpiry]_vars

\* A second call inside the lifetime of a token: the cached token is in the request
\* and the operation sent no token request.
C1_Witness ==
    /\ pc = "domainRequest"
    /\ tokenReqs = 0
    /\ CachedAndFresh
    /\ bearer = accessToken
    /\ ~reqSinceCached

\* C2: once the cached token's expiry has passed, the next getAccessToken call sends
\* one request to the token endpoint and no second one; the fields of a well-formed
\* answer replace the cache, tokenExpiry being the time of receipt plus expires_in
\* seconds, and the new token is the one handed out.
C2_RefreshAfterExpiry ==
    /\ [][(pc = "getAccessToken" /\ CachedAndExpired) =>
            (pc' = "tokenRequest" /\ tokenReqs' = tokenReqs + 1)]_vars
    /\ [][(pc = "tokenRequest") =>
            /\ tokenReqs = 1
            /\ tokenReqs' = tokenReqs
            /\ pc' # "tokenRequest"
            /\ (RespKind(tokenResp') = "well_formed" =>
                    /\ accessToken' = tokenResp'.access_token
                    /\ tokenExpiry' = now' + tokenResp'.expires_in * 1000
                    /\ bearer' = tokenResp'.access_token
                    /\ pc' = "domainRequest")]_vars

\* An operation that found an expired token has refreshed it: the request carries
\* the new token, which is not the one the operation started with.
C2_Witness ==
    /\ pc = "domainRequest"
    /\ tokenReqs = 1
    /\ pre.accessToken \in Tokens
    /\ pre.tokenExpiry >= 0
    /\ RespKind(tokenResp) = "well_formed"
    /\ tokenResp.expires_in > 0
    /\ accessToken # pre.accessToken
    /\ bearer = accessToken

\* The smallest positive margin the modelled clock can tell from none.
SafetyMargin == Tick

\* C3 as stated: a cached token is handed out only while the clock is before
\* tokenExpiry minus a positive safety margin.
C3_Margin ==
    (pc = "domainRequest" /\ tokenReqs = 0) => now < tokenExpiry - SafetyMargin

\* C3 as amended: the margin is zero; a cached token is handed out only while the
\* clock is before tokenExpiry.
C3_NoMargin ==
    (pc = "domainRequest" /\ tokenReqs = 0) => (accessToken \in Tokens /\ now < tokenExpiry)

\* A cached token handed out with no more than the margin left to live.
C3_Witness ==
    /\ pc = "domainRequest"
    /\ tokenReqs = 0
    /\ bearer = accessToken
    /\ tokenExpiry - now = SafetyMargin

\* C4: when the token endpoint answers with a non-success status or a malformed body
\* (a body that is no JSON, or JSON without access_token or expires_in), the
\* operation fails and has sent no domain request.
C4_RefreshFails ==
    RespKind(tokenResp) \in {"http_error", "not_json", "malformed"} =>
        (pc = "idle" /\ outcome.kind = "throw" /\ domainReqs = 0 /\ tokenReqs = 1)

UploadOrPublishFailed ==
    pc = "idle" /\ outcome.kind = "throw" /\ op \in {"uploadPackage", "publishItem"}

\* C5 as stated: when uploadPackage or publishItem fails, the cached token, its expiry
\* and the credentials are what they were when the operation started (here with a
\* token endpoint whose answers are never malformed).
C5_NoStateChange ==
    (UploadOrPublishFailed /\ RespKind(tokenResp) # "malformed") =>
        /\ accessToken = pre.accessToken
        /\ tokenExpiry = pre.tokenExpiry
        /\ config = pre.config

\* C5 as amended: the credentials are what they were; the token cache is what it was
\* unless the operation's own refresh was answered with a body httpRequest could
\* parse before the domain request failed, and then the cache holds the fields of
\* that answer. A validation error and a failed refresh leave the cache untouched.
C5_CacheUnchangedOrRefreshed ==
    UploadOrPublishFailed =>
        /\ config = pre.config
        /\ IF RespKind(tokenResp) \in {"well_formed", "malformed"}
           THEN /\ accessToken = tokenResp.access_token
                /\ IF tokenResp.expires_in = UndefinedNum
                   THEN tokenExpiry = NaN
                   ELSE tokenExpiry - tokenResp.expires_in * 1000 \in 0..now
           ELSE /\ accessToken = pre.accessToken
                /\ tokenExpiry = pre.tokenExpiry

\* publishItem refreshed the token and then failed on its domain request.
C5_Witness ==
    /\ UploadOrPublishFailed
    /\ op = "publishItem"
    /\ outcome.value = "HTTP"
    /\ tokenReqs = 1
    /\ domainReqs = 1
    /\ RespKind(tokenResp) = "well_formed"
    /\ accessToken # pre.accessToken

\* C6: the poller returns the state of the first response that says SUCCEEDED or
\* FAILED, at once: the poller has ended, with that state as its value (FAILED is a
\* value as SUCCEEDED is, not an error), whenever such a response has been received.
C6_TerminalReturned ==
    (op = Poller /\ lastState \in {"SUCCEEDED", "FAILED"}) =>
        (pc = "idle" /\ outcome = [kind |-> "return", value |-> lastState])

\* The poller returned FAILED from its second poll.
C6_Witness ==
    /\ Returned
    /\ outcome.value = "FAILED"
    /\ lastState = "FAILED"
    /\ polls = 2

OtherStates == UploadState \ {"IN_PROGRESS", "SUCCEEDED", "FAILED"}

\* C7: a response whose state is none of IN_PROGRESS, SUCCEEDED, FAILED ends the
\* poller at once with that state as its value; a response that says IN_PROGRESS or
\* carries no state sends it to sleep for the polling interval, after which the loop
\* condition is evaluated again and, the deadline not reached, the next poll is made.
C7_PassThrough ==
    /\ []((op = Poller /\ lastState \in OtherStates) =>
            (pc = "idle" /\ outcome = [kind |-> "return", value |-> lastState]))
    /\ [][(pc = "domainRequest" /\ op = Poller) =>
            IF pc' = "sleep"
            THEN lastState' \in ({"IN_PROGRESS"} \cup NoState)
            ELSE /\ pc' = "idle"
                 /\ outcome'.kind = "return" => lastState' \notin ({"IN_PROGRESS"} \cup NoState)
                 /\ outcome'.kind = "throw" => outcome'.value \in {"HTTP", "SyntaxError"}]_vars
    /\ [][pc = "sleep" =>
            (pc' = "loop" /\ now' - now >= POLL_INTERVAL_MS /\ polls' = polls)]_vars
    /\ [][(pc = "loop" /\ Elapsed < maxWaitTime) =>
            (pc' = "getAccessToken" /\ polls' = polls + 1)]_vars

\* The poller returned NOT_FOUND after having slept on an IN_PROGRESS response.
C7_Witness ==
    /\ Returned
    /\ outcome.value = "NOT_FOUND"
    /\ polls = 2
    /\ onlyInProgress
    /\ Elapsed >= POLL_INTERVAL_MS

C9_Window ==
    (TimedOut /\ onlyInProgress) =>
        (Elapsed >= maxWaitTime /\ Elapsed <= maxWaitTime + POLL_INTERVAL_MS)

\* C9 as amended: the error is raised no earlier than maxWaitTime and less than one
\* polling interval plus the time spent waiting for responses and late timers after
\* it; with instant responses and punctual timers that is within one interval.
C9_WindowPlusDelay ==
    (TimedOut /\ onlyInProgress) =>
        /\ Elapsed >= maxWaitTime
        /\ Elapsed < maxWaitTime + POLL_INTERVAL_MS + delay
        /\ Elapsed = polls * POLL_INTERVAL_MS + delay

\* maxWaitTime 5000, instant responses: the error is raised 6000 ms after the start.
C9_Witness ==
    /\ TimedOut
    /\ onlyInProgress
    /\ maxWaitTime = 5000
    /\ polls = 3
    /\ delay = 0
    /\ Elapsed = 6000

\* C10 as stated: the poller whose k-th response is the first that does not say
\* IN_PROGRESS returns no earlier than (k-1) polling intervals after its start; with
\* [IN_PROGRESS, IN_PROGRESS, SUCCEEDED] and maxWaitTime 10000 it returns SUCCEEDED
\* from its third call, 4000 ms or more and less than 10000 ms after its start.
C10_ThreePolls ==
    (Returned /\ onlyInProgress) =>
        /\ Elapsed >= (polls - 1) * POLL_INTERVAL_MS
        /\ (polls = 3 /\ maxWaitTime = 10000 /\ outcome.value = "SUCCEEDED") =>
                (Elapsed >= 4000 /\ Elapsed < 10000)

\* C10 as amended: the elapsed time is (k-1) polling intervals plus the time spent
\* waiting for responses and late timers; in the example it is 4000 ms or more, and
\* less than 10000 ms when that waiting time is less than 6000 ms.
C10_ThreePollsPlusDelay ==
    (Returned /\ onlyInProgress) =>
        /\ Elapsed = (polls - 1) * POLL_INTERVAL_MS + delay
        /\ (polls = 3 /\ maxWaitTime = 10000 /\ outcome.value = "SUCCEEDED") =>
                (Elapsed >= 4000 /\ (delay < 6000 => Elapsed < 10000))

\* [IN_PROGRESS, IN_PROGRESS, SUCCEEDED], maxWaitTime 10000, instant responses.
C10_Witness ==
    /\ Returned
    /\ onlyInProgress
    /\ polls = 3
    /\ maxWaitTime = 10000
    /\ outcome.value = "SUCCEEDED"
    /\ delay = 0
    /\ Elapsed = 4000

\* ------------------------------------------------------- the fair behaviours
\* The event loop runs every continuation that is ready, every timer fires and every
\* request is answered or fails: the poller is never left suspended for ever.
Fairness ==
    /\ WF_vars(LoopCheck)
    /\ WF_vars(GetAccessToken)
    /\ WF_vars(TokenResponse)
    /\ WF_vars(DomainResponse)
    /\ WF_vars(Sleep)

SpecFair == Spec /\ Fairness

\* The latest instant a poller that started at startTime can end at: its last poll
\* starts one tick before the deadline, waits for two responses and sleeps once.
LatestEnd ==
    startTime + maxWaitTime - Tick + 2 * MaxLatency * Tick + SleepFor(MaxJitter * Tick)
\* The modelled clock runs long enough for the running poller.
PollerFits == op = Poller /\ (maxWaitTime = 0 \/ LatestEnd <= MaxTime)
PollerRunning == op = Poller /\ pc # "idle"
PollerEnded == op = Poller /\ pc = "idle" /\ outcome.kind \in {"return", "throw"}

\* C11: every call of waitForUploadCompletion ends, by returning a state or by
\* throwing, whatever the fetchStatus answers are, as long as they arrive.
C11_Terminates == (PollerRunning /\ PollerFits) ~> PollerEnded

\* A poller that was answered IN_PROGRESS at least twice and then gave up.
C11_Witness ==
    /\ PollerEnded
    /\ PollerFits
    /\ maxWaitTime > 0
    /\ polls >= 2
    /\ onlyInProgress
    /\ outcome.value = "Upload timeout"

\* C12: the poller is sequential. A poll sends at most one token request and one
\* fetchStatus request, nothing is outstanding while the poller checks its deadline or
\* sleeps, the next poll starts only from the loop head (after the response and the
\* sleep), and every sleep is the same POLL_INTERVAL_MS: at the loop head the elapsed
\* time is one interval per poll made, plus the response times and timer lateness.
C12_Sequential ==
    /\ [](op = Poller =>
            /\ tokenReqs <= 1
            /\ domainReqs <= 1
            /\ (pc = "tokenRequest" => (tokenReqs = 1 /\ domainReqs = 0))
            /\ (pc = "domainRequest" => domainReqs = 1)
            /\ (pc \in {"loop", "sleep"} => (tokenReqs = 0 /\ domainReqs = 0))
            /\ (pc = "loop" => Elapsed = polls * POLL_INTERVAL_MS + delay))
    /\ [][(op = Poller /\ pc # "idle" /\ polls' # polls) =>
            /\ pc = "loop"
            /\ polls' = polls + 1
            /\ (polls > 0 => PollVerdict(lastState) = "sleep")
            /\ now' = now]_vars
    /\ [][(op = Poller /\ pc = "sleep" /\ pc' # "sleep") =>
            /\ pc' = "loop"
            /\ (now' - now) - (delay' - delay) = POLL_INTERVAL_MS]_vars

\* The third poll's request is in flight, after two full sleeps and some waiting.
C12_Witness ==
    /\ op = Poller
    /\ pc = "domainRequest"
    /\ polls = 3
    /\ domainReqs = 1
    /\ delay > 0
    /\ Elapsed = 2 * POLL_INTERVAL_MS + delay

\* C13: uploadPackage with a filePath that names no file throws "File not found" at
\* once: no token request and no upload request is sent and the token cache is as it
\* was, whether it held no token, a fresh one or an expired one.
C13_MissingFile ==
    (op = "uploadPackage" /\ ~file.exists) =>
        /\ pc = "idle"
        /\ outcome = [kind |-> "throw", value |-> "File not found"]
        /\ tokenReqs = 0
        /\ domainReqs = 0
        /\ bearer = Undefined
        /\ accessToken = pre.accessToken
        /\ tokenExpiry = pre.tokenExpiry

\* A missing file while the cached token has expired: a refresh would be due.
C13_Witness ==
    /\ op = "uploadPackage"
    /\ ~file.exists
    /\ outcome.value = "File not found"
    /\ CachedAndExpired

\* ======================================================= the command layer
\* One run of the cws executable (src/src/cli.ts): commander parses the arguments
\* and calls the action handler of one command, which builds a new client and calls
\* its operations one after the other. The handler reads its arguments and options
\* where the code reads them; the client's steps are the actions above. The handler
\* goes on as soon as the operation it awaits has ended: no time passes in between.

\* The client's variables, but for the file.
clientVars == <<now, config, accessToken, tokenExpiry, pc, op, startTime, maxWaitTime,
                outcome, bearer, tokenReqs, domainReqs, polls, tokenResp, lastState, pre,
                reqSinceCached, delay, onlyInProgress>>

\* Strings the handlers parse are sequences of characters.
DeployPercentageArgs ==
    {<<"1", "0", "0">>, <<"0">>, <<"1", "5", "0">>, <<"-", "1">>, <<"a", "b", "c">>,
     <<"5", "0", "a", "b", "c">>, <<"1", "2", ".", "5">>, <<>>}
MaxWaitTimeArgs == {<<"5">>, <<"4">>, <<"x">>}
IntervalArgs == {<<"3", "0">>, <<"5">>, <<"4">>, <<"x">>}

\* A JavaScript number: NaN, or an integer value.
NotANumber == [nan |-> TRUE, value |-> 0]
Number(v) == [nan |-> FALSE, value |-> v]
isNaN(n) == n.nan

DigitValue ==
    [c \in {"0", "1", "2", "3", "4", "5", "6", "7", "8", "9"} |->
        CASE c = "0" -> 0 [] c = "1" -> 1 [] c = "2" -> 2 [] c = "3" -> 3 [] c = "4" -> 4
          [] c = "5" -> 5 [] c = "6" -> 6 [] c = "7" -> 7 [] c = "8" -> 8 [] c = "9" -> 9]
IsDigit(c) == c \in DOMAIN DigitValue

\* The value of the digits s starts with, after the digits that gave acc.
RECURSIVE LeadingDigits(_, _)
LeadingDigits(s, acc) ==
    IF s = <<>> \/ ~IsDigit(Head(s)) THEN acc
    ELSE LeadingDigits(Tail(s), acc * 10 + DigitValue[Head(s)])

RECURSIVE TrimStart(_)
TrimStart(s) == IF s # <<>> /\ Head(s) = " " THEN TrimStart(Tail(s)) ELSE s

\* parseInt(str, 10): leading blanks, a sign, then digits up to the first character
\* that is none; NaN when there is no digit.
parseInt(str) ==
    LET t == TrimStart(str)
        signed == t # <<>> /\ Head(t) \in {"-", "+"}
        digits == IF signed THEN Tail(t) ELSE t
    IN  IF digits = <<>> \/ ~IsDigit(Head(digits)) THEN NotANumber
        ELSE IF signed /\ Head(t) = "-" THEN Number(0 - LeadingDigits(digits, 0))
        ELSE Number(LeadingDigits(digits, 0))

\* option || "default"
OrDefault(str, default) == IF str = <<>> THEN default ELSE str

\* extname(file) for the paths tried, and toLowerCase() of an extension.
extname(path) ==
    CASE path = "pkg.zip" -> ".zip"
      [] path = "pkg.CRX" -> ".CRX"
      [] path = "pkg.txt" -> ".txt"
      [] OTHER -> ""
toLowerCase(ext) == IF ext = ".CRX" THEN ".crx" ELSE ext

\* [".zip", ".crx"].includes(extname(file).toLowerCase())
SupportedType(path) == toLowerCase(extname(path)) \in {".zip", ".crx"}

\* Mutant: no upper limit.
ValidPercentage_NoUpperLimit(n) == ~(isNaN(n) \/ n.value < 0)

\* The test of the deploy percentage, in the deploy, publish and upload commands:
\* not (isNaN(p) || p < 0 || p > 100).
ValidPercentage(n) == ~(isNaN(n) \/ n.value < 0 \/ n.value > 100)

\* Mutant: deployInfos is sent with every percentage.
DeployInfos_Always(p) == <<[deployPercentage |-> p]>>

\* deployPercentage < 100 ? [{ deployPercentage }] : undefined. The empty sequence is
\* undefined: JSON.stringify leaves the key out of the body.
DeployInfos(p) == IF p < 100 THEN <<[deployPercentage |-> p]>> ELSE <<>>

\* Mutant: every upload that has not succeeded yet is waited for.
NeedsProcessing_NotSucceeded(state) == state # "SUCCEEDED"

\* uploadResponse.uploadState === UploadState.IN_PROGRESS
NeedsProcessing(state) == state = "IN_PROGRESS"

\* Mutant: the limit taken in seconds, after the multiplication by 1000.
ValidMaxWaitTime_Seconds(ms) == ~(isNaN(ms) \/ ms.value < 5)

\* not (isNaN(maxWaitTime) || maxWaitTime < 5000)
ValidMaxWaitTime(ms) == ~(isNaN(ms) \/ ms.value < 5000)

\* Mutant: any interval of a second or more will do.
ValidInterval_AtLeastOne(n) == ~(isNaN(n) \/ n.value < 1)

\* not (isNaN(interval) || interval < 5)
ValidInterval(n) == ~(isNaN(n) \/ n.value < 5)

\* parseInt(...) * 1000
Times1000(n) == IF isNaN(n) THEN NotANumber ELSE Number(n.value * 1000)

\* A request body: deployPercentage of setPublishedDeployPercentage, deployInfos of
\* publishItem.
NoBody == [deployPercentage |-> UndefinedNum, deployInfos |-> <<>>]
Called(o, body) == Append(calls, [op |-> o, body |-> body])

\* The handler's catch block: the error is printed and process.exit(1) is called.
Fail(error) ==
    /\ exit' = [code |-> 1, error |-> error]
    /\ cpc' = "exited"
    /\ UNCHANGED <<extVars, clientVars, calls>>

\* The handler returns: the process ends with code 0.
Return ==
    /\ exit' = [code |-> 0, error |-> ""]
    /\ cpc' = "exited"
    /\ UNCHANGED <<extVars, clientVars, calls>>

\* cws upload <item-id> <file>: the file is checked, then --dry, then the
\* configuration is loaded and uploadPackage is called.
UploadCommand ==
    /\ command = "none" /\ cpc = "none"
    /\ command' = "upload"
    /\ \E f \in Files, dry \in BOOLEAN, configOk \in BOOLEAN :
        /\ opts' = [opts EXCEPT !.dry = dry]
        /\ IF ~f.exists THEN Fail("File not found") /\ file' = f
           ELSE IF ~SupportedType(f.path) THEN Fail("Unsupported file type") /\ file' = f
           ELSE IF dry THEN Return /\ file' = f
           ELSE IF ~configOk THEN Fail("Config file not found") /\ file' = f
           ELSE /\ CallUploadPackage(f)
                /\ now' = now
                /\ cpc' = "uploadPackage"
                /\ calls' = Called("uploadPackage", NoBody)
                /\ UNCHANGED exit
    /\ UNCHANGED <<uploadState, timerAt>>

\* uploadPackage has ended: its error ends the command; a response that says
\* IN_PROGRESS has --max-wait-time parsed and the poller called; with any other
\* response the option, whatever was typed, is not looked at.
UploadReturned ==
    /\ cpc = "uploadPackage" /\ pc = "idle"
    /\ IF outcome.kind = "throw"
       THEN Fail(outcome.value) /\ UNCHANGED <<opts, uploadState>>
       ELSE \E s \in UploadState \cup {Undefined} :
            /\ uploadState' = s
            /\ IF NeedsProcessing(s)
               THEN \E w \in MaxWaitTimeArgs :
                    /\ opts' = [opts EXCEPT !.maxWaitTime = w]
                    /\ LET ms == Times1000(parseInt(OrDefault(w, <<"3", "0", "0">>)))
                       IN  IF ~ValidMaxWaitTime(ms)
                           THEN Fail("Max wait time must be at least 5 seconds")
                           ELSE /\ CallWaitForUploadCompletion(ms.value)
                                /\ now' = now
                                /\ cpc' = Poller
                                /\ calls' = Called(Poller, NoBody)
                                /\ UNCHANGED exit
               ELSE \E w \in MaxWaitTimeArgs :
                    /\ opts' = [opts EXCEPT !.maxWaitTime = w]
                    /\ cpc' = "uploaded"
                    /\ UNCHANGED <<extVars, clientVars, calls, exit>>
    /\ UNCHANGED <<command, file, timerAt>>

\* Mutant: only an error of the poller ends the command; any state it returns
\* counts as success.
WaitReturned_AnyState ==
    /\ cpc = Poller /\ pc = "idle"
    /\ IF outcome.kind = "throw" THEN Fail(outcome.value)
       ELSE cpc' = "uploaded" /\ UNCHANGED <<extVars, clientVars, calls, exit>>
    /\ UNCHANGED <<command, file, opts, uploadState, timerAt>>

\* waitForUploadCompletion has ended: SUCCEEDED lets the command go on, any other
\* state is process.exit(1), an error goes to the catch block.
WaitReturned ==
    /\ cpc = Poller /\ pc = "idle"
    /\ IF outcome.kind = "throw" THEN Fail(outcome.value)
       ELSE IF outcome.value = "SUCCEEDED"
       THEN cpc' = "uploaded" /\ UNCHANGED <<extVars, clientVars, calls, exit>>
       ELSE Fail("Upload processing failed")
    /\ UNCHANGED <<command, file, opts, uploadState, timerAt>>

\* The publish request of the publish command and of upload --auto-publish: the
\* percentage is parsed and tested, then publishItem is called.
Publish(d) ==
    LET p == parseInt(OrDefault(d, <<"1", "0", "0">>))
    IN  IF ~ValidPercentage(p)
        THEN Fail("Deploy percentage must be a number between 0 and 100")
        ELSE /\ CallMakeRequest("publishItem")
             /\ now' = now
             /\ cpc' = "publishItem"
             /\ calls' = Called("publishItem", [NoBody EXCEPT !.deployInfos = DeployInfos(p.value)])
             /\ UNCHANGED exit

\* The upload is complete: with --auto-publish the item is published.
AutoPublish ==
    /\ cpc = "uploaded"
    /\ \E a \in BOOLEAN :
        IF ~a
        THEN opts' = [opts EXCEPT !.autoPublish = FALSE] /\ Return
        ELSE \E d \in DeployPercentageArgs :
                /\ opts' = [opts EXCEPT !.autoPublish = TRUE, !.deployPercentage = d]
                /\ Publish(d)
    /\ UNCHANGED <<command, file, uploadState, timerAt>>

\* cws publish <item-id>
PublishCommand ==
    /\ command = "none" /\ cpc = "none"
    /\ command' = "publish"
    /\ \E dry \in BOOLEAN, configOk \in BOOLEAN :
        IF dry THEN opts' = [opts EXCEPT !.dry = TRUE] /\ Return
        ELSE IF ~configOk THEN UNCHANGED opts /\ Fail("Config file not found")
        ELSE \E d \in DeployPercentageArgs :
                /\ opts' = [opts EXCEPT !.deployPercentage = d]
                /\ Publish(d)
    /\ UNCHANGED <<file, uploadState, timerAt>>

\* cws cancel <item-id>
CancelCommand ==
    /\ command = "none" /\ cpc = "none"
    /\ command' = "cancel"
    /\ \E dry \in BOOLEAN, configOk \in BOOLEAN :
        /\ opts' = [opts EXCEPT !.dry = dry]
        /\ IF dry THEN Return
           ELSE IF ~configOk THEN Fail("Config file not found")
           ELSE /\ CallMakeRequest("cancelSubmission")
                /\ now' = now
                /\ cpc' = "cancelSubmission"
                /\ calls' = Called("cancelSubmission", NoBody)
                /\ UNCHANGED exit
    /\ UNCHANGED <<file, uploadState, timerAt>>

\* cws deploy <item-id> <percentage>: the percentage is parsed and tested, then
\* --dry, then the configuration is loaded and the percentage is set.
DeployCommand ==
    /\ command = "none" /\ cpc = "none"
    /\ command' = "deploy"
    /\ \E d \in DeployPercentageArgs, dry \in BOOLEAN, configOk \in BOOLEAN :
        /\ opts' = [opts EXCEPT !.dry = dry, !.deployPercentage = d]
        /\ LET p == parseInt(d)
           IN  IF ~ValidPercentage(p)
               THEN Fail("Deploy percentage must be a number between 0 and 100")
               ELSE IF dry THEN Return
               ELSE IF ~configOk THEN Fail("Config file not found")
               ELSE /\ CallMakeRequest("setPublishedDeployPercentage")
                    /\ now' = now
                    /\ cpc' = "setPublishedDeployPercentage"
                    /\ calls' = Called("setPublishedDeployPercentage",
                                       [NoBody EXCEPT !.deployPercentage = p.value])
                    /\ UNCHANGED exit
    /\ UNCHANGED <<file, uploadState, timerAt>>

\* publishItem, cancelSubmission or setPublishedDeployPercentage has ended, and the
\* command with it.
LastCallReturned ==
    /\ cpc \in {"publishItem", "cancelSubmission", "setPublishedDeployPercentage"}
    /\ pc = "idle"
    /\ IF outcome.kind = "throw" THEN Fail(outcome.value) ELSE Return
    /\ UNCHANGED <<command, file, opts, uploadState, timerAt>>

\* cws status <item-id>: the configuration is loaded and the status fetched; the
\* handler does not read --dry.
StatusCommand ==
    /\ command = "none" /\ cpc = "none"
    /\ command' = "status"
    /\ \E dry \in BOOLEAN, configOk \in BOOLEAN :
        /\ opts' = [opts EXCEPT !.dry = dry]
        /\ IF ~configOk THEN Fail("Config file not found")
           ELSE /\ CallMakeRequest("fetchItemStatus")
                /\ now' = now
                /\ cpc' = "fetchItemStatus"
                /\ calls' = Called("fetchItemStatus", NoBody)
                /\ UNCHANGED exit
    /\ UNCHANGED <<file, uploadState, timerAt>>

\* The initial fetch has ended: with --watch, setupWatchMode parses and tests the
\* interval and starts the timer; without it the interval, whatever was typed, is
\* not looked at.
StatusReturned ==
    /\ cpc = "fetchItemStatus" /\ pc = "idle"
    /\ IF outcome.kind = "throw"
       THEN Fail(outcome.value) /\ UNCHANGED <<opts, timerAt>>
       ELSE \E watch \in BOOLEAN :
            IF ~watch
            THEN \E i \in IntervalArgs :
                /\ opts' = [opts EXCEPT !.watch = FALSE, !.interval = i]
                /\ Return
                /\ UNCHANGED timerAt
            ELSE \E i \in IntervalArgs :
                /\ opts' = [opts EXCEPT !.watch = TRUE, !.interval = i]
                /\ LET n == parseInt(OrDefault(i, <<"3", "0">>))
                   IN  IF ~ValidInterval(n)
                       THEN Fail("Interval must be at least 5 seconds") /\ UNCHANGED timerAt
                       ELSE /\ timerAt' = now + n.value * 1000
                            /\ cpc' = "watching"
                            /\ UNCHANGED <<extVars, clientVars, calls, exit>>
    /\ UNCHANGED <<command, file, uploadState>>

\* Nothing runs until the timer of setInterval is due.
WatchWait ==
    /\ cpc = "watching" /\ pc = "idle"
    /\ now < timerAt /\ timerAt <= MaxTime
    /\ now' = timerAt
    /\ UNCHANGED <<extVars, config, accessToken, tokenExpiry, pc, op, startTime, maxWaitTime,
                   outcome, bearer, tokenReqs, domainReqs, polls, tokenResp, lastState, pre,
                   reqSinceCached, delay, onlyInProgress, file, cliVars>>

\* The timer's callback: fetchStatus() is called, and the timer is due again one
\* interval later.
WatchTick ==
    /\ cpc = "watching" /\ pc = "idle"
    /\ now >= timerAt
    /\ CallMakeRequest("fetchItemStatus")
    /\ cpc' = "watchFetch"
    /\ calls' = Called("fetchItemStatus", NoBody)
    /\ timerAt' = timerAt + parseInt(OrDefault(opts.interval, <<"3", "0">>)).value * 1000
    /\ UNCHANGED <<command, file, opts, uploadState, exit>>

\* The timer is due while the fetch of the previous tick still awaits a response:
\* setInterval runs the callback all the same, and fetchStatus() is called on the
\* client a second time. The model follows the run up to this point.
WatchOverrun ==
    /\ cpc = "watchFetch" /\ pc \in {"tokenRequest", "domainRequest"}
    /\ second = NoSecond
    /\ now <= timerAt /\ timerAt <= MaxTime
    /\ now' = timerAt
    /\ second' = SecondCalled("fetchItemStatus", timerAt)
    /\ cpc' = "overlapped"
    /\ calls' = Called("fetchItemStatus", NoBody)
    /\ timerAt' = timerAt + parseInt(OrDefault(opts.interval, <<"3", "0">>)).value * 1000
    /\ UNCHANGED <<config, accessToken, tokenExpiry, pc, op, startTime, maxWaitTime, outcome,
                   bearer, tokenReqs, domainReqs, polls, tokenResp, lastState, pre,
                   reqSinceCached, delay, onlyInProgress, file, command, opts, uploadState,
                   exit, input, output>>

\* Mutant: the callback treats a failed fetch as the initial fetch is treated, the
\* process exits.
WatchFetched_ExitOnError ==
    /\ cpc = "watchFetch" /\ pc = "idle"
    /\ IF outcome.kind = "throw"
       THEN Fail(outcome.value) /\ timerAt' = -1
       ELSE cpc' = "watching" /\ UNCHANGED <<extVars, clientVars, calls, exit, timerAt>>
    /\ UNCHANGED <<file, command, opts, uploadState>>

\* The callback's fetch has ended; its error is printed and the timer goes on.
WatchFetched ==
    /\ cpc = "watchFetch" /\ pc = "idle"
    /\ cpc' = "watching"
    /\ UNCHANGED <<extVars, clientVars, file, command, opts, uploadState, calls, exit, timerAt>>

NextCli ==
    \/ UploadCommand
    \/ UploadReturned
    \/ WaitReturned
    \/ AutoPublish
    \/ PublishCommand
    \/ CancelCommand
    \/ DeployCommand
    \/ LastCallReturned
    \/ StatusCommand
    \/ StatusReturned
    \/ WatchWait
    \/ WatchTick
    \/ WatchFetched
    \/ WatchOverrun
    \/ LoopCheck
    \/ GetAccessToken
    \/ TokenResponse
    \/ DomainResponse
    \/ Sleep

SpecCli == Init /\ [][NextCli]_vars

\* ------------------------------------------------- claims on the command layer
\* The running command has sent a request: the operation it called last has, or it
\* called an operation before that one (an operation the commands call ends only
\* after a request of its own was sent and answered).
NetworkUsed == tokenReqs + domainReqs > 0 \/ polls > 0 \/ Len(calls) > 1
\* The errors the handlers raise about what the caller typed.
ValidationErrors ==
    {"File not found", "Unsupported file type",
     "Deploy percentage must be a number between 0 and 100",
     "Max wait time must be at least 5 seconds", "Interval must be at least 5 seconds"}

\* C14: the upload command sends a token request or an upload request only for a file
\* that exists, is not empty and is named .zip or .crx.
C14_FilePrecondition ==
    (command = "upload" /\ NetworkUsed) =>
        /\ file.exists
        /\ file.size > 0
        /\ toLowerCase(extname(file.path)) \in {".zip", ".crx"}

\* C15: a handler raises its validation errors (missing file, bad extension, deploy
\* percentage, max wait time, watch interval) before the command has sent any request.
C15_ValidationFirst == (exit.error \in ValidationErrors) => ~NetworkUsed

\* str is all digits.
RECURSIVE AllDigits(_)
AllDigits(str) == str = <<>> \/ (IsDigit(Head(str)) /\ AllDigits(Tail(str)))
\* str is written as a decimal number: a sign or none, digits, and a point followed by
\* digits or none.
DenotesNumber(str) ==
    LET unsigned == IF str # <<>> /\ Head(str) \in {"-", "+"} THEN Tail(str) ELSE str
    IN  \E k \in 1..Len(unsigned) :
            /\ AllDigits(SubSeq(unsigned, 1, k))
            /\ \/ k = Len(unsigned)
               \/ /\ k + 1 < Len(unsigned)
                  /\ unsigned[k + 1] = "."
                  /\ AllDigits(SubSeq(unsigned, k + 2, Len(unsigned)))
\* The percentage typed is no number, or a number outside 0..100.
BadPercentage(str) ==
    \/ ~DenotesNumber(str)
    \/ parseInt(str).value < 0
    \/ parseInt(str).value > 100

\* C16: cws deploy with a percentage that is no number or is outside 0..100 ends with
\* the validation error, and no client operation is called: no token request and no
\* domain request is sent. (Without --dry and with the configuration file there: a
\* passing dry run and a missing configuration end the command in other ways.)
C16_BadPercentageRejected ==
    (/\ command = "deploy"
     /\ BadPercentage(opts.deployPercentage)
     /\ ~opts.dry
     /\ exit.error # "Config file not found") =>
        /\ exit = [code |-> 1,
                   error |-> "Deploy percentage must be a number between 0 and 100"]
        /\ calls = <<>>
        /\ ~NetworkUsed

\* C17: every deployPercentage in a request body, that of setPublishedDeployPercentage
\* and those of a publish request's deployInfos, is an integer from 0 to 100.
C17_PercentageInRange ==
    \A i \in DOMAIN calls :
        /\ calls[i].op = "setPublishedDeployPercentage" =>
                calls[i].body.deployPercentage \in 0..100
        /\ \A j \in DOMAIN calls[i].body.deployInfos :
                calls[i].body.deployInfos[j].deployPercentage \in 0..100

\* cws deploy <id> 12.5: the request with deployPercentage 12 has been sent.
C17_Witness ==
    /\ command = "deploy"
    /\ opts.deployPercentage = <<"1", "2", ".", "5">>
    /\ calls = <<[op |-> "setPublishedDeployPercentage",
                  body |-> [deployPercentage |-> 12, deployInfos |-> <<>>]]>>
    /\ domainReqs = 1

\* C18: the publish request of the publish command and of upload --auto-publish has
\* deployInfos, with the one validated percentage, exactly when that percentage is
\* below 100; with 100 or no --deploy-percentage it has none.
C18_DeployInfos ==
    \A i \in DOMAIN calls :
        calls[i].op = "publishItem" =>
            LET p == parseInt(OrDefault(opts.deployPercentage, <<"1", "0", "0">>)).value
                infos == calls[i].body.deployInfos
            IN  /\ command \in {"publish", "upload"}
                /\ command = "upload" => opts.autoPublish
                /\ p \in 0..100
                /\ p < 100 => infos = <<[deployPercentage |-> p]>>
                /\ p = 100 => infos = <<>>
                /\ opts.deployPercentage = <<>> => infos = <<>>

\* upload --auto-publish --deploy-percentage 0: published with deployInfos [0].
C18_Witness ==
    /\ command = "upload"
    /\ opts.autoPublish
    /\ opts.deployPercentage = <<"0">>
    /\ Len(calls) >= 2
    /\ calls[Len(calls)] = [op |-> "publishItem",
                            body |-> [deployPercentage |-> UndefinedNum,
                                      deployInfos |-> <<[deployPercentage |-> 0]>>]]
    /\ exit.code = 0

\* C19: with --dry a command calls no client operation: no token request and no domain
\* request is sent.
C19_DryRun == opts.dry => (calls = <<>> /\ ~NetworkUsed /\ pc = "idle")

\* C20: the upload command calls waitForUploadCompletion only after uploadPackage
\* returned a response, which said IN_PROGRESS; no poll is made before that.
C20_PollerAfterUpload ==
    /\ [](\A i \in DOMAIN calls :
            calls[i].op = Poller =>
                /\ command = "upload"
                /\ i = 2
                /\ calls[1].op = "uploadPackage"
                /\ uploadState = "IN_PROGRESS")
    /\ [](polls > 0 => (op = Poller /\ uploadState = "IN_PROGRESS"))
    /\ [][(op' = Poller /\ op # Poller) =>
            /\ op = "uploadPackage"
            /\ pc = "idle"
            /\ outcome = [kind |-> "return", value |-> "response"]
            /\ domainReqs = 1
            /\ polls' = 0]_vars

\* The first poll's request is in flight.
C20_Witness ==
    /\ command = "upload"
    /\ cpc = Poller
    /\ uploadState = "IN_PROGRESS"
    /\ polls = 1
    /\ pc = "domainRequest"

\* ---------------------------------------------------------------- C21
\* C21: with --auto-publish the upload command sends a publish request only after
\* the upload succeeded: whenever publishItem was called, uploadPackage returned a
\* response whose uploadState is SUCCEEDED, or one that said IN_PROGRESS followed by
\* a poller that returned SUCCEEDED; never after a failed upload request, an
\* upload response or poller result in another state, or a poller timeout.
C21_PublishAfterSuccess ==
    /\ [](\A i \in DOMAIN calls :
            (command = "upload" /\ calls[i].op = "publishItem") =>
                /\ calls[1].op = "uploadPackage"
                /\ \/ uploadState = "SUCCEEDED" /\ i = 2
                   \/ uploadState = "IN_PROGRESS" /\ i = 3 /\ calls[2].op = Poller)
    /\ [][(command = "upload" /\ op' = "publishItem" /\ op # "publishItem") =>
            /\ pc = "idle"
            /\ outcome.kind = "return"
            /\ op = Poller => outcome.value = "SUCCEEDED"]_vars

\* ---------------------------------------------------------------- C22
\* C22: no automatic retry. A request operation sends at most one token request
\* and one domain request; a request is sent only by getAccessToken (the token
\* request, or the domain request with the cached token) or on a successful token
\* response (the domain request), never in reaction to a failed response; a failed
\* token response ends the operation with that error and no domain request; and
\* the poller makes a poll only while the wait has no outcome, so the first
\* failing fetchStatus, which ends the wait with its error, is the last poll.
C22_NoRetry ==
    /\ [](tokenReqs <= 1 /\ domainReqs <= 1)
    /\ []((tokenResp # NoResponse /\ HttpError(tokenResp) # "") =>
            /\ pc = "idle"
            /\ outcome = [kind |-> "throw", value |-> HttpError(tokenResp)]
            /\ tokenReqs = 1
            /\ domainReqs = 0)
    /\ [][tokenReqs' > tokenReqs => pc = "getAccessToken"]_vars
    /\ [][domainReqs' > domainReqs =>
            \/ pc = "getAccessToken"
            \/ pc = "tokenRequest" /\ HttpError(tokenResp') = ""]_vars
    /\ [][polls' > polls => (pc = "loop" /\ outcome = NoOutcome)]_vars
    /\ [][(pc \in {"tokenRequest", "domainRequest"} /\ outcome'.kind = "throw") =>
            /\ pc' = "idle"
            /\ outcome'.value \in {"HTTP", "SyntaxError"}
            /\ polls' = polls
            /\ tokenReqs' = tokenReqs
            /\ domainReqs' = domainReqs]_vars

\* The second fetchStatus of a wait failed with an HTTP error and ended the wait.
C22_Witness ==
    /\ op = Poller
    /\ polls = 2
    /\ pc = "idle"
    /\ outcome = [kind |-> "throw", value |-> "HTTP"]
    /\ domainReqs = 1

\* ---------------------------------------------------------------- C27
\* C27: lazy refresh only. Every request to the token endpoint is sent by
\* getAccessToken inside a running client operation, at a moment when no
\* unexpired token is cached and without the clock moving in that step; the
\* constructor sends nothing, and a step that starts an operation, sleeps between
\* polls, waits for a response or lets the expiry pass sends no token request.
C27_LazyRefresh ==
    /\ [](op = "none" => (tokenReqs = 0 /\ domainReqs = 0 /\ ~reqSinceCached))
    /\ [][tokenReqs' > tokenReqs =>
            /\ pc = "getAccessToken"
            /\ op \in RequestOps \cup {Poller}
            /\ ~CachedAndFresh
            /\ now' = now
            /\ tokenReqs' = tokenReqs + 1
            /\ pc' = "tokenRequest"]_vars
    /\ [][(pc \in {"idle", "sleep", "loop", "tokenRequest", "domainRequest"} \/ now' # now) =>
            tokenReqs' <= tokenReqs]_vars
    /\ [][(CachedAndFresh /\ ~CachedAndFresh') => (tokenReqs' <= tokenReqs /\ pc' # "tokenRequest")]_vars

\* A poll of the poller finds the cached token expired and sends the refresh request.
C27_Witness ==
    /\ op = Poller
    /\ polls = 2
    /\ pc = "tokenRequest"
    /\ tokenReqs = 1
    /\ CachedAndExpired

\* ---------------------------------------------------------------- C28
\* C28: the token is replaced wholesale. In every reachable state the cached
\* access token and its expiry are both unset or both set, and a step that
\* changes either of them sets both from the one token response it processes.
C28_Wholesale ==
    /\ [](\/ accessToken = Undefined /\ tokenExpiry = UndefinedNum
          \/ accessToken \in Tokens /\ tokenExpiry >= 0)
    /\ [][(accessToken' # accessToken \/ tokenExpiry' # tokenExpiry) =>
            /\ pc = "tokenRequest"
            /\ HttpError(tokenResp') = ""
            /\ accessToken' = tokenResp'.access_token
            /\ tokenExpiry' = ExpiryOf(now', tokenResp'.expires_in)]_vars

\* ===================================================== httpRequest on its own
\* SpecHttp applies httpRequest to one response of any status and body.
Statuses == {100, 199, 200, 201, 204, 299, 300, 304, 400, 401, 403, 404, 429, 500, 503}

\* Bodies that are JSON texts, and what JSON.parse makes of them.
JsonValue ==
    [t \in {"{}", "{\"state\":\"OK\"}", "null", "0", "[]"} |->
        CASE t = "{}" -> <<"object">>
          [] t = "{\"state\":\"OK\"}" -> <<"object", "state", "OK">>
          [] t = "null" -> <<"null">>
          [] t = "0" -> <<"number", 0>>
          [] t = "[]" -> <<"array">>]

\* The bodies a response can have: none, a JSON text, or text that is not JSON.
Bodies == {""} \cup DOMAIN JsonValue \cup {" ", "<html>", "{"}

HttpResponses == [status : Statuses, text : Bodies]

\* {} as T
EmptyObject == <<"object">>

\* JSON.parse(responseText)
JSONparse(text) ==
    IF text \in DOMAIN JsonValue
    THEN [kind |-> "return", value |-> JsonValue[text]]
    ELSE [kind |-> "throw", error |-> <<"SyntaxError">>]

\* Mutant: response.ok is not tested.
httpRequest_AnyStatus(r) ==
    IF r.text # "" THEN JSONparse(r.text) ELSE [kind |-> "return", value |-> EmptyObject]

\* httpRequest once fetch has resolved with response r: the Error of lines 78-81,
\* or the value of line 84.
httpRequest(r) ==
    IF ~ResponseOk(r)
    THEN [kind |-> "throw", error |-> <<"Error", "HTTP", r.status, r.text>>]
    ELSE IF r.text # "" THEN JSONparse(r.text)
    ELSE [kind |-> "return", value |-> EmptyObject]

\* The variables of the client and of the commands.
progVars == <<clientVars, file, cliVars, second>>

InitHttp ==
    /\ Constructed
    /\ input \in {[fn |-> "httpRequest", response |-> r] : r \in HttpResponses}
    /\ output = NoOutput

\* fetch has resolved: the rest of httpRequest.
HttpRequest ==
    /\ input.fn = "httpRequest"
    /\ output = NoOutput
    /\ output' = httpRequest(input.response)
    /\ UNCHANGED <<progVars, input>>

NextHttp == HttpRequest

SpecHttp == InitHttp /\ [][NextHttp]_vars

\* ---------------------------------------------------------------- C23
\* C23 as stated: for every response, httpRequest fails with an error carrying the
\* status and the body text when the status is not 2xx; on a 2xx status it returns
\* the empty object when the body is empty and the parsed JSON value otherwise.
C23_Outcome ==
    (input.fn = "httpRequest" /\ output # NoOutput) =>
        LET r == input.response
        IN  IF r.status \notin 200..299
            THEN /\ output.kind = "throw"
                 /\ output.error = <<"Error", "HTTP", r.status, r.text>>
            ELSE /\ output.kind = "return"
                 /\ IF r.text = "" THEN output.value = <<"object">>
                    ELSE r.text \in DOMAIN JsonValue /\ output.value = JsonValue[r.text]

\* C23 amended: as above, except that a 2xx body that is not empty and is not a
\* JSON text makes httpRequest fail with the SyntaxError of JSON.parse.
C23_OutcomeOrSyntaxError ==
    (input.fn = "httpRequest" /\ output # NoOutput) =>
        LET r == input.response
        IN  IF r.status \notin 200..299
            THEN /\ output.kind = "throw"
                 /\ output.error = <<"Error", "HTTP", r.status, r.text>>
            ELSE IF r.text = ""
            THEN output = [kind |-> "return", value |-> <<"object">>]
            ELSE IF r.text \in DOMAIN JsonValue
            THEN output = [kind |-> "return", value |-> JsonValue[r.text]]
            ELSE output = [kind |-> "throw", error |-> <<"SyntaxError">>]

\* A 404 whose body is a JSON text has been turned into the error.
C23_Witness ==
    /\ input.fn = "httpRequest"
    /\ input.response = [status |-> 404, text |-> "{\"state\":\"OK\"}"]
    /\ output.kind = "throw"

\* ========================================= loadConfig and saveConfig on their own
\* SpecConfig applies ConfigManager.loadConfig (src/src/utils/config.ts 144-175) to
\* one configPath, one state of the two files it can name and one environment, or
\* ConfigManager.saveConfig (177-196) to one configuration and such files, followed
\* by loadConfig of the same path.
DefaultPath == "~/.cws-manager-cli/config.json"
CustomPath == "custom.json"

\* configPath: absent, empty, or a path of the user's
ConfigPaths == {Undefined, "", CustomPath}

FileConfig ==
    [clientId |-> "file-id", clientSecret |-> "file-secret", refreshToken |-> "file-token",
     publisherId |-> "file-publisher"]

\* A file is absent, or holds a configuration, JSON without publisherId, or text
\* that is not JSON.
ConfigFiles ==
    {[exists |-> FALSE, json |-> FALSE, config |-> FileConfig],
     [exists |-> TRUE, json |-> TRUE, config |-> FileConfig],
     [exists |-> TRUE, json |-> TRUE, config |-> [FileConfig EXCEPT !.publisherId = Undefined]],
     [exists |-> TRUE, json |-> FALSE, config |-> FileConfig]}

\* process.env: each CWS_* variable is unset, empty, blank or a padded value
EnvValues == {Undefined, "", " ", " env "}
Environments ==
    [CWS_CLIENT_ID : EnvValues, CWS_CLIENT_SECRET : EnvValues,
     CWS_REFRESH_TOKEN : EnvValues, CWS_PUBLISHER_ID : EnvValues]

\* !value of JavaScript, for a string or undefined
Falsy(v) == v = Undefined \/ v = ""

\* String.prototype.trim
trim(v) == IF v = " env " THEN "env" ELSE IF v = " " THEN "" ELSE v

\* validateConfig: the names of the missing fields ({}: the configuration passes)
MissingFields(c) == {f \in DOMAIN c : Falsy(c[f])}

\* loadConfigFromEnv: the trimmed variables, or null when one is unset or empty
loadConfigFromEnv(env) ==
    IF \E v \in DOMAIN env : Falsy(env[v])
    THEN [null |-> TRUE, config |-> FileConfig]
    ELSE [null |-> FALSE,
          config |-> [clientId |-> trim(env.CWS_CLIENT_ID),
                      clientSecret |-> trim(env.CWS_CLIENT_SECRET),
                      refreshToken |-> trim(env.CWS_REFRESH_TOKEN),
                      publisherId |-> trim(env.CWS_PUBLISHER_ID)]]

\* Mutant: a file that cannot be loaded falls back to the environment.
loadConfig_FallbackOnInvalid(configPath, fs, env) ==
    LET filePath == IF Falsy(configPath) THEN DefaultPath ELSE configPath
        f == fs[filePath]
        envConfig == loadConfigFromEnv(env)
    IN  IF f.exists /\ f.json /\ MissingFields(f.config) = {}
        THEN [kind |-> "return", config |-> f.config]
        ELSE IF Falsy(configPath) /\ ~envConfig.null
        THEN IF MissingFields(envConfig.config) # {}
             THEN [kind |-> "throw", error |-> "Missing required config fields"]
             ELSE [kind |-> "return", config |-> envConfig.config]
        ELSE [kind |-> "throw", error |-> "Config file not found"]

\* loadConfig(configPath) with the files fs and the environment env
loadConfig(configPath, fs, env) ==
    LET filePath == IF Falsy(configPath) THEN DefaultPath ELSE configPath
        f == fs[filePath]
        envConfig == loadConfigFromEnv(env)
    IN  IF f.exists
        THEN IF ~f.json \/ MissingFields(f.config) # {}
             THEN [kind |-> "throw", error |-> "Failed to load config from file"]
             ELSE [kind |-> "return", config |-> f.config]
        ELSE IF Falsy(configPath) /\ ~envConfig.null
        THEN IF MissingFields(envConfig.config) # {}
             THEN [kind |-> "throw", error |-> "Missing required config fields"]
             ELSE [kind |-> "return", config |-> envConfig.config]
        ELSE [kind |-> "throw", error |-> "Config file not found"]

\* ------------------------------------------------------------- saveConfig
\* The values a field of the configuration handed to saveConfig can have: absent,
\* empty, blank, a plain string, and a string with a quote, a backslash and a line
\* feed in it.
Awkward == "a\"b\\c\nd"
SaveValues == {Undefined, "", " ", "id", Awkward}
SaveConfigs ==
    [clientId : SaveValues, clientSecret : {"secret"}, refreshToken : {"token", Awkward},
     publisherId : SaveValues]

\* The characters of a string, and the string of a sequence of characters.
Characters(v) ==
    CASE v = "" -> <<>>
      [] v = " " -> <<" ">>
      [] v = "id" -> <<"i", "d">>
      [] v = "secret" -> <<"s", "e", "c", "r", "e", "t">>
      [] v = "token" -> <<"t", "o", "k", "e", "n">>
      [] v = Awkward -> <<"a", "\"", "b", "\\", "c", "\n", "d">>
StringOf(chars) ==
    CHOOSE v \in {"", " ", "id", "secret", "token", Awkward} : Characters(v) = chars

\* JSON.stringify of a string: in quotes, with the quote, the backslash and the line
\* feed escaped.
RECURSIVE Escape(_)
Escape(chars) ==
    IF chars = <<>> THEN <<>>
    ELSE (CASE Head(chars) = "\"" -> <<"\\", "\"">>
            [] Head(chars) = "\\" -> <<"\\", "\\">>
            [] Head(chars) = "\n" -> <<"\\", "n">>
            [] OTHER -> <<Head(chars)>>) \o Escape(Tail(chars))
Literal(v) == <<"\"">> \o Escape(Characters(v)) \o <<"\"">>

\* JSON.parse of the inside of a string literal: a backslash and the character after
\* it give one character.
RECURSIVE Unescape(_)
Unescape(chars) ==
    IF chars = <<>> THEN <<>>
    ELSE IF Head(chars) = "\\" /\ Len(chars) >= 2
    THEN <<IF chars[2] = "n" THEN "\n" ELSE chars[2]>> \o Unescape(Tail(Tail(chars)))
    ELSE <<Head(chars)>> \o Unescape(Tail(chars))

ConfigFields == <<"clientId", "clientSecret", "refreshToken", "publisherId">>

\* JSON.stringify(config, null, 2): one member per field, in the order of the
\* object's keys; a field whose value is undefined is left out.
stringify(cfg) ==
    LET Member(i) == [key |-> ConfigFields[i], literal |-> Literal(cfg[ConfigFields[i]])]
        RECURSIVE From(_)
        From(i) ==
            IF i > Len(ConfigFields) THEN <<>>
            ELSE IF cfg[ConfigFields[i]] = Undefined THEN From(i + 1)
            ELSE <<Member(i)>> \o From(i + 1)
    IN  From(1)

\* JSON.parse of such a text, read as a configuration: a field is the string of its
\* member's literal, and undefined when the text has no such member.
parse(text) ==
    [f \in {ConfigFields[i] : i \in DOMAIN ConfigFields} |->
        IF \E i \in DOMAIN text : text[i].key = f
        THEN LET m == text[CHOOSE i \in DOMAIN text : text[i].key = f]
             IN  StringOf(Unescape(SubSeq(m.literal, 2, Len(m.literal) - 1)))
        ELSE Undefined]

\* dirname(filePath) exists: "." always does, the directory of the default file when
\* it was made before.
DirExists(filePath, dir) == filePath # DefaultPath \/ dir

\* Mutant: the file is written first and the configuration validated afterwards.
saveConfig_WriteFirst(cfg, configPath, fs, dir, writable) ==
    LET filePath == IF Falsy(configPath) THEN DefaultPath ELSE configPath
        written == [fs EXCEPT ![filePath] =
                       [exists |-> TRUE, json |-> TRUE, config |-> parse(stringify(cfg))]]
    IN  IF ~writable
        THEN [kind |-> "throw", error |-> "Failed to save config", fs |-> fs,
              mkdir |-> ~DirExists(filePath, dir), loaded |-> NoOutput]
        ELSE IF MissingFields(cfg) # {}
        THEN [kind |-> "throw", error |-> "Failed to save config", fs |-> written,
              mkdir |-> ~DirExists(filePath, dir), loaded |-> NoOutput]
        ELSE [kind |-> "return", error |-> "", fs |-> written,
              mkdir |-> ~DirExists(filePath, dir), loaded |-> NoOutput]

\* saveConfig(config, configPath) with the files fs: the directory is made when it is
\* not there, the configuration validated, its JSON text written. The result carries
\* the files as the call leaves them; a file is kept as what JSON.parse reads in it.
saveConfig(cfg, configPath, fs, dir, writable) ==
    LET filePath == IF Falsy(configPath) THEN DefaultPath ELSE configPath
        written == [fs EXCEPT ![filePath] =
                       [exists |-> TRUE, json |-> TRUE, config |-> parse(stringify(cfg))]]
    IN  IF MissingFields(cfg) # {} \/ ~writable
        THEN [kind |-> "throw", error |-> "Failed to save config", fs |-> fs,
              mkdir |-> ~DirExists(filePath, dir), loaded |-> NoOutput]
        ELSE [kind |-> "return", error |-> "", fs |-> written,
              mkdir |-> ~DirExists(filePath, dir), loaded |-> NoOutput]

\* What loadConfig and saveConfig are called with. The directory of the default file
\* exists when the file does; the environment of a saveConfig run is empty but for
\* one variable.
LoadInputs ==
    [fn : {"loadConfig"}, configPath : ConfigPaths,
     fs : [{DefaultPath, CustomPath} -> ConfigFiles], env : Environments]
SaveInputs ==
    {i \in [fn : {"saveConfig"}, configPath : ConfigPaths,
            fs : [{DefaultPath, CustomPath} -> ConfigFiles],
            env : {[v \in {"CWS_CLIENT_ID", "CWS_CLIENT_SECRET", "CWS_REFRESH_TOKEN",
                           "CWS_PUBLISHER_ID"} |->
                        IF v = "CWS_CLIENT_ID" THEN " env " ELSE Undefined]},
            config : SaveConfigs, dir : BOOLEAN, writable : BOOLEAN] :
        i.fs[DefaultPath].exists => i.dir}

InitConfig ==
    /\ Constructed
    /\ input \in LoadInputs \cup SaveInputs
    /\ output = NoOutput

LoadConfig ==
    /\ input.fn = "loadConfig"
    /\ output = NoOutput
    /\ output' = loadConfig(input.configPath, input.fs, input.env)
    /\ UNCHANGED <<progVars, input>>

\* saveConfig is called.
SaveConfig ==
    /\ input.fn = "saveConfig"
    /\ output = NoOutput
    /\ output' = saveConfig(input.config, input.configPath, input.fs, input.dir, input.writable)
    /\ UNCHANGED <<progVars, input>>

\* After saveConfig, loadConfig is called with the same path, on the files saveConfig
\* left.
LoadSaved ==
    /\ input.fn = "saveConfig"
    /\ output # NoOutput
    /\ output.loaded = NoOutput
    /\ output' = [output EXCEPT !.loaded = loadConfig(input.configPath, output.fs, input.env)]
    /\ UNCHANGED <<progVars, input>>

NextConfig ==
    \/ LoadConfig
    \/ SaveConfig
    \/ LoadSaved

SpecConfig == InitConfig /\ [][NextConfig]_vars

\* ---------------------------------------------------------------- C30
\* The file loadConfig looks at, whether a path of the user's was given, and
\* whether the four variables are all set (to something that is not empty).
TheFile == input.fs[IF input.configPath = CustomPath THEN CustomPath ELSE DefaultPath]
PathGiven == input.configPath = CustomPath
AllFourSet == \A v \in DOMAIN input.env : input.env[v] \notin {Undefined, ""}
FromEnv ==
    /\ output.kind = "return"
    /\ output.config \in [clientId : {"env"}, clientSecret : {"env"}, refreshToken : {"env"},
                          publisherId : {"env"}]

\* C30: when the config file exists loadConfig returns the file's configuration,
\* or fails when the file is invalid, and never a configuration from the
\* environment; the environment's configuration is returned only when the file does
\* not exist, no custom path was given and all four variables are set; in every
\* other case loadConfig fails.
C30_Precedence ==
    (input.fn = "loadConfig" /\ output # NoOutput) =>
        /\ TheFile.exists =>
              IF TheFile.json /\ TheFile.config = FileConfig
              THEN output = [kind |-> "return", config |-> FileConfig]
              ELSE output.kind = "throw"
        /\ FromEnv => (~TheFile.exists /\ ~PathGiven /\ AllFourSet)
        /\ ~TheFile.exists => (FromEnv \/ output.kind = "throw")
        /\ (~TheFile.exists /\ (PathGiven \/ ~AllFourSet)) => output.kind = "throw"

\* No file, no --config, four padded variables: the trimmed values are returned.
C30_Witness ==
    /\ input.fn = "loadConfig"
    /\ ~TheFile.exists
    /\ input.configPath = Undefined
    /\ \A v \in DOMAIN input.env : input.env[v] = " env "
    /\ FromEnv

\* ================================================ the multipart body on its own
\* SpecMultipart builds the body of uploadPackage (src/src/services/chrome-webstore-
\* client.ts 117-133) for one path, one file content and one value of Math.random,
\* and has the receiving end parse it. A byte is written as its ASCII character, or
\* as "0xNN" when it has none; U+00E9 is a character outside ASCII.
CRLF == <<"\r", "\n">>
Dashes == <<"-", "-">>
Quote == "\""

BoundaryPrefix ==
    <<"-", "-", "-", "-", "W", "e", "b", "K", "i", "t", "F", "o", "r", "m", "B", "o",
      "u", "n", "d", "a", "r", "y">>

DispositionField ==
    <<"C", "o", "n", "t", "e", "n", "t", "-", "D", "i", "s", "p", "o", "s", "i", "t",
      "i", "o", "n", ":", " ", "f", "o", "r", "m", "-", "d", "a", "t", "a", ";", " ",
      "n", "a", "m", "e", "=", "\"">>

FilenameParam ==
    <<";", " ", "f", "i", "l", "e", "n", "a", "m", "e", "=", "\"">>

ContentTypeLine ==
    <<"C", "o", "n", "t", "e", "n", "t", "-", "T", "y", "p", "e", ":", " ", "a", "p",
      "p", "l", "i", "c", "a", "t", "i", "o", "n", "/", "o", "c", "t", "e", "t", "-",
      "s", "t", "r", "e", "a", "m">>

FieldName == <<"f", "i", "l", "e">>

\* filePath
UploadPaths ==
    {<<"a", ".", "z", "i", "p">>,
     <<"d", "/", "a", ".", "z", "i", "p">>,
     <<"U+00E9", ".", "c", "r", "x">>,
     <<"a", "\"", "b", ".", "z", "i", "p">>}

\* Math.random().toString(36).substring(2): digits and lower-case letters, none
\* when Math.random() returned 0
RandomSuffixes == {<<>>, <<"x", "7">>}

\* fileBuffer: no byte, bytes that are no text, line ends and dashes, a quote, and
\* bytes that spell a closing delimiter
FileBuffers ==
    {<<>>,
     <<"0xDE", "0xAD", "0xBE", "0xEF", "0x00">>,
     <<"\r", "\n", "-", "-", "\r", "\n", "0xFF">>,
     <<"\"", "0x00", "-", "-">>,
     CRLF \o Dashes \o BoundaryPrefix \o <<"x", "7">> \o Dashes \o CRLF}

\* basename(filePath)
RECURSIVE basename(_)
basename(path) ==
    IF \E i \in DOMAIN path : path[i] = "/"
    THEN basename(Tail(path))
    ELSE path

\* The UTF-8 bytes of a character
Utf8(c) == IF c = "U+00E9" THEN <<"0xC3", "0xA9">> ELSE <<c>>

\* Buffer.from(string)
RECURSIVE BufferFrom(_)
BufferFrom(str) ==
    IF str = <<>> THEN <<>>
    ELSE IF Len(str) = 1 THEN Utf8(str[1])
    ELSE LET half == Len(str) \div 2
         IN  BufferFrom(SubSeq(str, 1, half)) \o BufferFrom(SubSeq(str, half + 1, Len(str)))

\* The characters that UTF-8 bytes stand for
RECURSIVE Utf8Decode(_)
Utf8Decode(bytes) ==
    IF bytes = <<>> THEN <<>>
    ELSE IF Len(bytes) >= 2 /\ SubSeq(bytes, 1, 2) = <<"0xC3", "0xA9">>
    THEN <<"U+00E9">> \o Utf8Decode(SubSeq(bytes, 3, Len(bytes)))
    ELSE <<Head(bytes)>> \o Utf8Decode(Tail(bytes))

\* "----WebKitFormBoundary" + Math.random().toString(36).substring(2)
Boundary(random) == BoundaryPrefix \o random

\* bodyBuffer: the part's headers, the file's bytes, the closing delimiter
BodyBuffer(filename, fileBuffer, boundary) ==
    BufferFrom(Dashes \o boundary \o CRLF
               \o DispositionField \o FieldName \o <<Quote>> \o FilenameParam \o filename
               \o <<Quote>> \o CRLF
               \o ContentTypeLine \o CRLF
               \o CRLF)
    \o fileBuffer
    \o BufferFrom(CRLF \o Dashes \o boundary \o Dashes \o CRLF)

\* The bytes of s from position at on begin with pat.
StartsWith(s, pat, at) ==
    /\ at >= 1
    /\ at + Len(pat) - 1 <= Len(s)
    /\ SubSeq(s, at, at + Len(pat) - 1) = pat

\* Where pat first occurs in s at or after position from (0: nowhere)
IndexOf(s, pat, from) ==
    LET I == {i \in from..Len(s) : StartsWith(s, pat, i)}
    IN  IF I = {} THEN 0 ELSE CHOOSE i \in I : \A j \in I : i <= j

Malformed == [ok |-> FALSE, parts |-> <<>>]

\* The Content-Disposition line of a form-data part: name and filename are quoted
\* strings, each ended by the next quote, and nothing follows the filename.
ParseDisposition(line, content) ==
    IF ~StartsWith(line, DispositionField, 1) THEN Malformed
    ELSE LET n == Len(DispositionField) + 1
             nq == IndexOf(line, <<Quote>>, n)
         IN  IF nq = 0 \/ ~StartsWith(line, FilenameParam, nq + 1) THEN Malformed
             ELSE LET f == nq + 1 + Len(FilenameParam)
                      fq == IndexOf(line, <<Quote>>, f)
                  IN  IF fq # Len(line) THEN Malformed
                      ELSE [ok |-> TRUE,
                            parts |-> <<[name |-> Utf8Decode(SubSeq(line, n, nq - 1)),
                                         filename |-> Utf8Decode(SubSeq(line, f, fq - 1)),
                                         content |-> content]>>]

\* A multipart/form-data parser (RFC 7578, RFC 2046) given the body and the boundary
\* parameter of the Content-Type header: the first delimiter line, the headers up
\* to the empty line, the content up to the next CRLF "--" boundary, which must be
\* the closing delimiter for the body to hold one part.
ParseMultipart(body, boundary) ==
    LET first == Dashes \o boundary \o CRLF
        delimiter == CRLF \o Dashes \o boundary
        hs == Len(first) + 1
        he == IndexOf(body, CRLF \o CRLF, hs)
        cs == he + 4
        d == IndexOf(body, delimiter, cs)
        le == IndexOf(body, CRLF, hs)
    IN  IF ~StartsWith(body, first, 1) \/ he = 0 \/ d = 0 THEN Malformed
        ELSE IF ~StartsWith(body, Dashes, d + Len(delimiter)) THEN Malformed
        ELSE ParseDisposition(SubSeq(body, hs, le - 1), SubSeq(body, cs, d - 1))

InitMultipart ==
    /\ Constructed
    /\ input \in [fn : {"uploadPackage"}, filePath : UploadPaths, fileBuffer : FileBuffers,
                  random : RandomSuffixes]
    /\ output = NoOutput

\* uploadPackage 117-133: the body is built.
BuildBody ==
    /\ input.fn = "uploadPackage"
    /\ output = NoOutput
    /\ output' = [kind |-> "body",
                  boundary |-> Boundary(input.random),
                  body |-> BodyBuffer(basename(input.filePath), input.fileBuffer,
                                      Boundary(input.random))]
    /\ UNCHANGED <<progVars, input>>

\* The body has been posted with its Content-Type header: the receiver parses it.
ParseBody ==
    /\ output.kind = "body"
    /\ output' = [kind |-> "parsed", result |-> ParseMultipart(output.body, output.boundary)]
    /\ UNCHANGED <<progVars, input>>

NextMultipart == BuildBody \/ ParseBody

SpecMultipart == InitMultipart /\ [][NextMultipart]_vars

\* ---------------------------------------------------------------- C29
\* C29: for every file name and byte buffer, parsing the body built by uploadPackage
\* yields exactly one part, named file, whose file name is the base name of the
\* path and whose content is the identical byte sequence.
C29_RoundTrip ==
    output.kind = "parsed" =>
        output.result =
            [ok |-> TRUE,
             parts |-> <<[name |-> FieldName,
                          filename |-> basename(input.filePath),
                          content |-> input.fileBuffer]>>]

\* ============================================ two operations on one client
\* SpecRace is a caller that starts a second request operation on the client while
\* the first one is suspended at an await (Promise.all of two calls, or a timer
\* callback): both run getAccessToken against the same two fields. second.overlap
\* records that the first operation's token request was in flight when the second
\* sent its own.
SecondOps == {"publishItem", "fetchItemStatus"}

\* Mutant: a single-flight guard, the second operation joins the refresh that is
\* in flight instead of sending its own request.
CallSecond_SingleFlight(o) ==
    /\ pc \in {"tokenRequest", "domainRequest"}
    /\ second = NoSecond
    /\ second' =
         IF TokenIsValid(accessToken, tokenExpiry, now)
         THEN [NoSecond EXCEPT !.op = o, !.pc = "domainRequest", !.bearer = accessToken]
         ELSE IF pc = "tokenRequest"
         THEN [NoSecond EXCEPT !.op = o, !.pc = "joined"]
         ELSE [NoSecond EXCEPT !.op = o, !.pc = "tokenRequest"]

\* A second makeRequest(o) is called while the first operation awaits a response:
\* it runs getAccessToken up to its await, as GetAccessToken does for the first.
CallSecond(o) ==
    /\ pc \in {"tokenRequest", "domainRequest"}
    /\ second = NoSecond
    /\ second' = SecondCalled(o, now)

\* What the token cache can hold when the two operations are called: nothing, a
\* token that has expired, or one that has not.
RaceCaches ==
    {[accessToken |-> Undefined, tokenExpiry |-> UndefinedNum, now |-> 0],
     [accessToken |-> "T1", tokenExpiry |-> Tick, now |-> Tick],
     [accessToken |-> "T1", tokenExpiry |-> 2 * Tick, now |-> Tick]}

InitRace ==
    /\ \E c \in RaceCaches :
        /\ now = c.now
        /\ accessToken = c.accessToken
        /\ tokenExpiry = c.tokenExpiry
    /\ Unused
    /\ input = NoInput
    /\ output = NoOutput

\* The caller's first call, publishItem.
StartFirst ==
    /\ op = "none"
    /\ MakeRequest
    /\ op' = "publishItem"

StartSecond ==
    /\ command = "none"
    /\ op \in RequestOps
    /\ \E o \in SecondOps : CallSecond(o)
    /\ UNCHANGED <<clientVars, file, cliVars, input, output>>

\* The token endpoint answers the second operation's request: lines 57-58 store the
\* response's fields, whatever the first operation stored meanwhile.
SecondTokenResponse ==
    /\ second.pc = "tokenRequest"
    /\ \E d \in Latencies, r \in TokenResponses :
        /\ now + d <= MaxTime
        /\ now' = now + d
        /\ accessToken' = CacheAfter(r, now', accessToken, tokenExpiry).accessToken
        /\ tokenExpiry' = CacheAfter(r, now', accessToken, tokenExpiry).tokenExpiry
        /\ IF HttpError(r) # ""
           THEN /\ second' = [second EXCEPT !.tokenResp = r, !.pc = "idle",
                                !.outcome = [kind |-> "throw", value |-> HttpError(r)]]
                /\ UNCHANGED reqSinceCached
           ELSE /\ second' = [second EXCEPT !.tokenResp = r, !.pc = "domainRequest",
                                            !.bearer = accessToken']
                /\ reqSinceCached' = FALSE
    /\ UNCHANGED <<config, pc, op, startTime, maxWaitTime, outcome, bearer, tokenReqs,
                   domainReqs, polls, tokenResp, lastState, pre, delay, onlyInProgress,
                   file, cliVars, input, output>>

\* The domain endpoint answers the second operation.
SecondDomainResponse ==
    /\ second.pc = "domainRequest"
    /\ \E d \in Latencies, r \in DomainResponses(second.op) :
        /\ now + d <= MaxTime
        /\ now' = now + d
        /\ second' = [second EXCEPT !.pc = "idle",
                        !.outcome = IF HttpError(r) # ""
                                    THEN [kind |-> "throw", value |-> HttpError(r)]
                                    ELSE [kind |-> "return", value |-> "response"]]
    /\ UNCHANGED <<config, accessToken, tokenExpiry, pc, op, startTime, maxWaitTime, outcome,
                   bearer, tokenReqs, domainReqs, polls, tokenResp, lastState, pre,
                   reqSinceCached, delay, onlyInProgress, file, cliVars, input, output>>

NextRace ==
    \/ StartFirst
    \/ GetAccessToken
    \/ TokenResponse
    \/ DomainResponse
    \/ StartSecond
    \/ SecondTokenResponse
    \/ SecondDomainResponse

SpecRace == InitRace /\ [][NextRace]_vars

\* ---------------------------------------------------------------- C24
\* C24: the client has no single-flight guard. An operation started while another
\* one's request is in flight and no unexpired token is cached sends a token
\* request of its own, also when the other one's token request is in flight; and
\* each token response that is processed successfully sets the cached token and
\* expiry from that response, so the cache holds the one processed last.
C24_NoSingleFlight ==
    /\ [][(second = NoSecond /\ second' # NoSecond) =>
            /\ pc \in {"tokenRequest", "domainRequest"}
            /\ IF CachedAndFresh
               THEN second'.pc = "domainRequest" /\ second'.bearer = accessToken
               ELSE second'.pc = "tokenRequest" /\ second'.overlap = (pc = "tokenRequest")]_vars
    /\ [][(second.pc = "tokenRequest" /\ second'.pc = "domainRequest") =>
            /\ accessToken' = second'.tokenResp.access_token
            /\ tokenExpiry' = ExpiryOf(now', second'.tokenResp.expires_in)
            /\ second'.bearer = accessToken']_vars
    /\ [][(pc = "tokenRequest" /\ pc' = "domainRequest") =>
            /\ accessToken' = tokenResp'.access_token
            /\ tokenExpiry' = ExpiryOf(now', tokenResp'.expires_in)
            /\ bearer' = accessToken']_vars
    /\ [][(accessToken' # accessToken \/ tokenExpiry' # tokenExpiry) =>
            \/ pc = "tokenRequest" /\ pc' = "domainRequest"
            \/ second.pc = "tokenRequest" /\ second'.pc = "domainRequest"]_vars

\* Both operations refreshed at once, the first was answered T1 and the second,
\* answered later, T2: the first sends T1 while the cache holds T2.
C24_Witness ==
    /\ second.overlap
    /\ RespKind(tokenResp) = "well_formed" /\ tokenResp.access_token = "T1"
    /\ RespKind(second.tokenResp) = "well_formed" /\ second.tokenResp.access_token = "T2"
    /\ pc = "domainRequest" /\ bearer = "T1"
    /\ second.pc = "domainRequest" /\ second.bearer = "T2"
    /\ accessToken = "T2"

\* ---------------------------------------------------------------- C25
\* The HTTP requests of the client that await their response.
InFlight ==
    (IF pc \in {"tokenRequest", "domainRequest"} THEN 1 ELSE 0)
    + (IF second.pc \in {"tokenRequest", "domainRequest"} THEN 1 ELSE 0)

\* C25: in every run of every CLI command, status --watch included, the client
\* completes one operation before the next one starts, so that at most one HTTP
\* request of the client is in flight at any time.
C25_SequentialUse ==
    /\ [](command # "none" => (second = NoSecond /\ InFlight <= 1))
    /\ [][(command # "none" /\ Len(calls') > Len(calls)) => pc = "idle"]_vars

\* ------------------------------------------------------- the fair command run
\* The event loop runs a timer's callback when the timer is due, and every request
\* is answered.
SpecCliFair ==
    /\ SpecCli
    /\ Fairness
    /\ WF_vars(WatchWait)
    /\ WF_vars(WatchTick)
    /\ WF_vars(WatchFetched)

\* ---------------------------------------------------------------- C26
Watching == cpc \in {"watching", "watchFetch", "overlapped"}
IntervalMs == parseInt(OrDefault(opts.interval, <<"3", "0">>)).value * 1000

\* C26: once status --watch has started its timer the process does not end and
\* the timer is not stopped; the timer is due again exactly one interval after each
\* tick, and each tick calls fetchItemStatus; a fetch that fails in one tick leaves
\* the command watching with the timer as it was; and while the next tick is within
\* the clock's horizon, a watching command gets to its next fetch.
C26_KeepsRunning ==
    /\ [][Watching =>
            /\ Watching'
            /\ exit' = NoExit
            /\ timerAt' >= timerAt
            /\ timerAt' # -1]_vars
    /\ [][(Watching /\ timerAt' # timerAt) =>
            /\ timerAt' = timerAt + IntervalMs
            /\ now' >= timerAt
            /\ calls' = Append(calls, [op |-> "fetchItemStatus", body |-> NoBody])]_vars
    /\ [][(cpc = "watchFetch" /\ pc = "idle" /\ outcome.kind = "throw") =>
            /\ cpc' = "watching"
            /\ timerAt' = timerAt]_vars
    /\ (cpc = "watching" /\ timerAt <= MaxTime) ~> (cpc = "watchFetch" /\ now >= timerAt - IntervalMs)

\* The fetch of the first tick failed with an HTTP error; the command is watching
\* again and its second tick is within the horizon.
C26_Witness ==
    /\ cpc = "watching"
    /\ Len(calls) = 2
    /\ outcome = [kind |-> "throw", value |-> "HTTP"]
    /\ exit = NoExit
    /\ timerAt <= MaxTime

\* ---------------------------------------------------------------- C31
\* C31: the poller never reports a state that is not terminal. Every value it
\* returns is a state of UploadState other than IN_PROGRESS, never an absent or
\* empty one, and it is the state of the last fetchStatus response the poller
\* received; the step that returns is the one that receives that response.
C31_NeverNonTerminal ==
    /\ [](Returned =>
            /\ outcome.value \in UploadState \ {"IN_PROGRESS"}
            /\ outcome.value \notin NoState
            /\ outcome.value = lastState)
    /\ [][(op = Poller /\ outcome'.kind = "return" /\ outcome.kind # "return") =>
            /\ pc = "domainRequest"
            /\ pc' = "idle"
            /\ outcome'.value = lastState'
            /\ lastState' \notin {"IN_PROGRESS"} \cup NoState]_vars
    /\ [][(op = Poller /\ pc = "domainRequest" /\ pc' \notin {"idle", "domainRequest"}) =>
            /\ pc' = "sleep"
            /\ lastState' \in {"IN_PROGRESS"} \cup NoState
            /\ outcome' = NoOutcome]_vars

\* The poller slept on a response without a state and returned the state of a
\* later one, UPLOAD_STATE_UNSPECIFIED.
C31_Witness ==
    /\ Returned
    /\ polls >= 2
    /\ ~onlyInProgress
    /\ outcome.value = "UPLOAD_STATE_UNSPECIFIED"
    /\ lastState = "UPLOAD_STATE_UNSPECIFIED"

\* ---------------------------------------------------------------- C32
\* C32: the deadline is tested only before a poll. A fetchStatus response with a
\* state that ends the wait is returned whatever the time of its arrival, also
\* after the deadline; the step that receives a response never raises the timeout
\* error; and the error is raised only by a loop check, which is made when the
\* poller is called and after each completed sleep.
C32_DeadlineBeforePoll ==
    /\ [][(op = Poller /\ pc = "domainRequest" /\ outcome'.kind # "throw"
           /\ lastState' \notin {"IN_PROGRESS"} \cup NoState) =>
            /\ pc' = "idle"
            /\ outcome' = [kind |-> "return", value |-> lastState']]_vars
    /\ [][(op = Poller /\ pc \in {"getAccessToken", "tokenRequest", "domainRequest", "sleep"}) =>
            outcome' # [kind |-> "throw", value |-> "Upload timeout"]]_vars
    /\ [][(TimedOut' /\ ~TimedOut) =>
            /\ pc = "loop"
            /\ now' = now
            /\ polls' = polls
            /\ Elapsed >= maxWaitTime]_vars
    /\ [][(pc' = "loop" /\ pc # "loop") =>
            \/ pc = "sleep" /\ now' - now >= POLL_INTERVAL_MS
            \/ pc = "idle" /\ op' = Poller /\ polls' = 0]_vars

\* A poll that started before the deadline of 5000 ms was answered SUCCEEDED after
\* it, and the poller returned SUCCEEDED.
C32_Witness ==
    /\ Returned
    /\ maxWaitTime = 5000
    /\ Elapsed > maxWaitTime
    /\ outcome.value = "SUCCEEDED"
    /\ lastState = "SUCCEEDED"

\* ---------------------------------------------------------------- C33
\* Math.ceil(a / b) for b > 0.
Ceil(a, b) == IF a % b = 0 THEN a \div b ELSE a \div b + 1

\* C33: a call of waitForUploadCompletion makes at most ceil(maxWaitTime / 2000)
\* fetchItemStatus calls; with a maxWaitTime of 0 or less it makes none and raises
\* the timeout error at its first loop check, with no time passed and nothing sent.
C33_PollBound ==
    /\ [](op = Poller =>
            /\ (maxWaitTime > 0 => polls <= Ceil(maxWaitTime, POLL_INTERVAL_MS))
            /\ (maxWaitTime <= 0 =>
                    /\ polls = 0
                    /\ tokenReqs = 0
                    /\ domainReqs = 0
                    /\ pc \in {"loop", "idle"}
                    /\ Elapsed = 0
                    /\ (pc = "idle" => TimedOut)))
    /\ [][(op = Poller /\ pc = "loop" /\ maxWaitTime <= 0) => TimedOut']_vars

\* The bound is met: three polls within 5000 ms.
C33_Witness ==
    /\ op = Poller
    /\ maxWaitTime = 5000
    /\ polls = Ceil(maxWaitTime, POLL_INTERVAL_MS)
    /\ polls = 3

\* A negative maxWaitTime: the timeout error without a poll.
C33_WitnessNegative ==
    /\ TimedOut
    /\ maxWaitTime < 0
    /\ polls = 0

\* ---------------------------------------------------------------- C34
\* The operation ended on a refresh that failed: the token endpoint answered a
\* status outside 2xx or a body that is not JSON.
RefreshFailed ==
    /\ pc = "idle"
    /\ outcome.kind = "throw"
    /\ tokenResp # NoResponse
    /\ HttpError(tokenResp) # ""

\* C34: a token response that fails (status outside 2xx, or a body that is not
\* JSON) leaves accessToken and tokenExpiry as they were and ends the operation
\* with the error; the cache it leaves is not valid then nor at any later time
\* while it is unchanged, and getAccessToken on a cache that is not valid sends a
\* refresh request, so the next operation refreshes and hands out no stale token.
C34_FailedRefresh ==
    /\ [](RefreshFailed => ~TokenIsValid(accessToken, tokenExpiry, now))
    /\ [][(pc = "tokenRequest" /\ HttpError(tokenResp') # "") =>
            /\ accessToken' = accessToken
            /\ tokenExpiry' = tokenExpiry
            /\ RefreshFailed'
            /\ outcome'.value = HttpError(tokenResp')
            /\ domainReqs' = domainReqs
            /\ bearer' = bearer]_vars
    /\ [][(~TokenIsValid(accessToken, tokenExpiry, now)
           /\ accessToken' = accessToken /\ tokenExpiry' = tokenExpiry) =>
            ~TokenIsValid(accessToken', tokenExpiry', now')]_vars
    /\ [][(accessToken' # accessToken \/ tokenExpiry' # tokenExpiry) =>
            (pc = "tokenRequest" /\ HttpError(tokenResp') = "")]_vars
    /\ [][(pc = "getAccessToken" /\ ~TokenIsValid(accessToken, tokenExpiry, now)) =>
            /\ pc' = "tokenRequest"
            /\ tokenReqs' = tokenReqs + 1
            /\ domainReqs' = domainReqs
            /\ bearer' = bearer]_vars

\* A refresh failed while an expired token T1 was cached: T1 and its expiry are
\* still there, and not valid.
C34_Witness ==
    /\ RefreshFailed
    /\ accessToken = "T1"
    /\ tokenExpiry # NaN
    /\ now >= tokenExpiry
    /\ pre.accessToken = "T1"
    /\ tokenReqs = 1
    /\ domainReqs = 0

\* ---------------------------------------------------------------- C35
\* C35: in uploadPackage and the four makeRequest operations (and so in each poll of
\* the poller) the domain request is sent in the step in which getAccessToken
\* returns, from the cache or from a refresh, and its Authorization header carries
\* the value that call returned; the header of the request in flight stays that
\* value and is the cached token; when the refresh request fails, the operation
\* ends with that error and has sent no domain request.
C35_TokenBeforeRequest ==
    /\ [](pc = "domainRequest" =>
            /\ op \in RequestOps \cup {Poller}
            /\ domainReqs = 1
            /\ bearer = accessToken
            /\ (tokenReqs = 0 => bearer = pre.accessToken \/ op = Poller)
            /\ (tokenReqs = 1 => bearer = tokenResp.access_token /\ HttpError(tokenResp) = ""))
    /\ [](RefreshFailed => domainReqs = 0)
    /\ [][domainReqs' > domainReqs =>
            /\ pc' = "domainRequest"
            /\ domainReqs = 0
            /\ \/ /\ pc = "getAccessToken"
                  /\ TokenIsValid(accessToken, tokenExpiry, now)
                  /\ tokenReqs' = 0
                  /\ bearer' = accessToken
               \/ /\ pc = "tokenRequest"
                  /\ HttpError(tokenResp') = ""
                  /\ tokenReqs' = 1
                  /\ bearer' = tokenResp'.access_token
                  /\ accessToken' = bearer']_vars
    /\ [][pc = "domainRequest" => bearer' = bearer]_vars
    /\ [][(pc = "tokenRequest" /\ pc' # "domainRequest") =>
            /\ HttpError(tokenResp') # ""
            /\ pc' = "idle"
            /\ outcome' = [kind |-> "throw", value |-> HttpError(tokenResp')]]_vars

\* uploadPackage with an expired token T1 cached: the refresh answered T2, and the
\* upload request in flight carries T2.
C35_Witness ==
    /\ pc = "domainRequest"
    /\ op = "uploadPackage"
    /\ pre.accessToken = "T1"
    /\ tokenReqs = 1
    /\ bearer = "T2"
    /\ accessToken = "T2"

\* ---------------------------------------------------------------- C36
\* The poller the upload command called has ended.
UploadPollerEnded == command = "upload" /\ PollerEnded
Succeeded == outcome = [kind |-> "return", value |-> "SUCCEEDED"]

\* C36: when the poller of the upload command ends with anything but a returned
\* SUCCEEDED, the handler's next step is exit code 1 with no further call of the
\* client; once it has taken that step the command has exited with code 1, it has
\* called uploadPackage and the poller and nothing else, so no publish request was
\* sent; and the point where the success message is printed is reached from the
\* poller only with SUCCEEDED.
C36_ExitOne ==
    /\ []((UploadPollerEnded /\ ~Succeeded) =>
            /\ cpc \in {Poller, "exited"}
            /\ Len(calls) = 2
            /\ calls[1].op = "uploadPackage"
            /\ calls[2].op = Poller
            /\ (cpc = "exited" => exit.code = 1))
    /\ [][(UploadPollerEnded /\ ~Succeeded) =>
            /\ cpc' = "exited"
            /\ exit'.code = 1
            /\ calls' = calls
            /\ op' = op]_vars
    /\ [][(cpc = Poller /\ cpc' = "uploaded") => (UploadPollerEnded /\ Succeeded)]_vars
    /\ [][(command = "upload" /\ op' = "publishItem" /\ op = Poller) =>
            (cpc = "uploaded" /\ Succeeded)]_vars

\* The poller returned FAILED and the upload command has exited with code 1.
C36_Witness ==
    /\ UploadPollerEnded
    /\ outcome = [kind |-> "return", value |-> "FAILED"]
    /\ cpc = "exited"
    /\ exit.code = 1
    /\ Len(calls) = 2

\* ---------------------------------------------------------------- C37
\* --max-wait-time as the handler reads it: parseInt(option || "300", 10) * 1000.
MaxWaitTimeOption == Times1000(parseInt(OrDefault(opts.maxWaitTime, <<"3", "0", "0">>)))
BadMaxWaitTime ==
    /\ command = "upload"
    /\ opts.maxWaitTime # <<>>
    /\ (isNaN(MaxWaitTimeOption) \/ MaxWaitTimeOption.value < 5000)

\* C37: the upload command calls waitForUploadCompletion only after an upload
\* response that said IN_PROGRESS and only with a number of at least 5000 ms, the
\* --max-wait-time option times 1000; where it would call the poller with NaN or
\* with less, the command ends instead, with the error "Max wait time must be at
\* least 5 seconds" and exit code 1, in the step that reads the option; and no
\* status poll is ever made by a command given such an option.
C37_MaxWaitTimeBound ==
    /\ []((command = "upload" /\ op = Poller) =>
            /\ ~isNaN(MaxWaitTimeOption)
            /\ maxWaitTime = MaxWaitTimeOption.value
            /\ maxWaitTime >= 5000)
    /\ [](BadMaxWaitTime => (polls = 0 /\ op # Poller))
    /\ [][(command = "upload" /\ op' = Poller /\ op # Poller) =>
            /\ cpc = "uploadPackage"
            /\ uploadState' = "IN_PROGRESS"
            /\ maxWaitTime' >= 5000]_vars
    /\ [][(cpc = "uploadPackage" /\ uploadState' = "IN_PROGRESS" /\ BadMaxWaitTime') =>
            /\ cpc' = "exited"
            /\ exit' = [code |-> 1, error |-> "Max wait time must be at least 5 seconds"]
            /\ op' = op
            /\ polls' = 0]_vars

\* --max-wait-time 4 after an upload response that said IN_PROGRESS: the command
\* has exited with the error and no poll.
C37_Witness ==
    /\ BadMaxWaitTime
    /\ opts.maxWaitTime = <<"4">>
    /\ MaxWaitTimeOption = Number(4000)
    /\ uploadState = "IN_PROGRESS"
    /\ cpc = "exited"
    /\ exit = [code |-> 1, error |-> "Max wait time must be at least 5 seconds"]
    /\ polls = 0

\* ---------------------------------------------------------------- C38
\* --interval as setupWatchMode reads it: parseInt(option || "30", 10).
IntervalOption == parseInt(OrDefault(opts.interval, <<"3", "0">>))
\* The interval is a number of at least 5 (seconds).
AtLeastFive == ~isNaN(IntervalOption) /\ IntervalOption.value >= 5
\* The initial fetch of the status command has ended and the handler has not gone on.
InitialFetchEnded == command = "status" /\ cpc = "fetchItemStatus" /\ pc = "idle"

\* C38: the first thing the status command does with the client is one
\* fetchItemStatus, and while it runs there is no timer; the timer is created only
\* in the step after that fetch returned, with --watch set and an interval that
\* parses to a number of at least 5, and is due one interval later; a second fetch
\* is made only with the timer; an initial fetch that fails, and with --watch an
\* interval that is invalid, end the command with exit code 1 in that step; and a
\* command that has exited makes no further call.
C38_WatchStartUp ==
    /\ []((command = "status" /\ cpc = "fetchItemStatus") =>
            /\ Len(calls) = 1
            /\ calls[1].op = "fetchItemStatus"
            /\ timerAt = -1)
    /\ []((command = "status" /\ (Len(calls) >= 2 \/ timerAt # -1 \/ Watching)) =>
            /\ opts.watch
            /\ AtLeastFive
            /\ exit = NoExit)
    /\ [][(command = "status" /\ timerAt' # timerAt /\ timerAt = -1) =>
            /\ InitialFetchEnded
            /\ outcome.kind = "return"
            /\ opts'.watch
            /\ AtLeastFive'
            /\ timerAt' = now + IntervalOption'.value * 1000
            /\ cpc' = "watching"
            /\ calls' = calls]_vars
    /\ [][(InitialFetchEnded /\ outcome.kind = "throw") =>
            /\ cpc' = "exited"
            /\ exit' = [code |-> 1, error |-> outcome.value]
            /\ timerAt' = -1]_vars
    /\ [][(InitialFetchEnded /\ opts'.watch /\ ~AtLeastFive') =>
            /\ cpc' = "exited"
            /\ exit' = [code |-> 1, error |-> "Interval must be at least 5 seconds"]
            /\ timerAt' = -1]_vars
    /\ [][(command = "status" /\ cpc = "exited") =>
            (cpc' = "exited" /\ calls' = calls /\ timerAt' = timerAt)]_vars
    /\ []((command = "status" /\ cpc = "exited" /\ exit.code = 1) =>
            (Len(calls) <= 1 /\ timerAt = -1))

\* status --watch --interval 5: the initial fetch returned, the timer was created
\* and its first tick has made the second fetch.
C38_Witness ==
    /\ command = "status"
    /\ opts.watch
    /\ opts.interval = <<"5">>
    /\ Len(calls) = 2
    /\ cpc = "watchFetch"
    /\ now = 5000
    /\ timerAt = 10000

\* ---------------------------------------------------------------- C39
\* No field of the configuration c is missing or empty.
Complete(c) ==
    \A f \in {"clientId", "clientSecret", "refreshToken", "publisherId"} :
        c[f] # Undefined /\ c[f] # ""
\* The file saveConfig is to write, before and after the call.
SavePath == IF input.configPath = CustomPath THEN CustomPath ELSE DefaultPath
Saved == input.fn = "saveConfig" /\ output # NoOutput

\* C39: a configuration loadConfig returns has its four fields, none empty; when
\* saveConfig has changed a file, it is the file of its path, the call returned, the
\* configuration given and the one the file now holds are complete; saveConfig of a
\* configuration with a missing or empty field throws and leaves every file as it
\* was; and loadConfig of the same path after a saveConfig that returned, returns
\* the configuration that was saved.
C39_Validity ==
    /\ (input.fn = "loadConfig" /\ output # NoOutput /\ output.kind = "return") =>
            Complete(output.config)
    /\ Saved =>
        /\ output.fs # input.fs =>
              /\ output.kind = "return"
              /\ Complete(input.config)
              /\ \A p \in DOMAIN input.fs : p # SavePath => output.fs[p] = input.fs[p]
              /\ output.fs[SavePath].exists /\ output.fs[SavePath].json
              /\ Complete(output.fs[SavePath].config)
        /\ ~Complete(input.config) => (output.kind = "throw" /\ output.fs = input.fs)
        /\ (Complete(input.config) /\ input.writable) =>
              (output.kind = "return" /\ output.fs[SavePath].config = input.config)
        /\ (output.loaded # NoOutput /\ output.loaded.kind = "return") =>
              Complete(output.loaded.config)
        /\ (output.kind = "return" /\ output.loaded # NoOutput) =>
              output.loaded = [kind |-> "return", config |-> input.config]

\* A configuration with a quote, a backslash and a line feed in two of its fields
\* was saved over an existing file of the user's and loaded again, equal.
C39_Witness ==
    /\ Saved
    /\ input.configPath = CustomPath
    /\ input.fs[CustomPath] = [exists |-> TRUE, json |-> TRUE, config |-> FileConfig]
    /\ input.config.clientId = Awkward
    /\ input.config.refreshToken = Awkward
    /\ output.kind = "return"
    /\ output.loaded = [kind |-> "return", config |-> input.config]

====
